---- MODULE Spec2Model ----
(***************************************************************************)
(* A model of the terminfo database layer of nixterm-rs: the zero-copy     *)
(* view (src/src/terminfo/terminfo.rs), the owned buffer                   *)
(* (src/src/terminfo/terminfobuf.rs), the string tables                    *)
(* (src/src/terminfo/strtab.rs) and the binary helpers (src/src/util.rs).  *)
(*                                                                         *)
(* Memory is modelled at byte level.  A borrowed slice &[u8] is a record   *)
(* [off, len] into the parsed buffer `bytes` (off counts from 0), so that  *)
(* a read that leaves its slice but stays inside the buffer returns the    *)
(* bytes that really are there.  A panic (failed bounds check, unwrap of   *)
(* an Err, arithmetic overflow) is the result value Panic.                 *)
(***************************************************************************)
EXTENDS Integers, Sequences, FiniteSets, TLC

VARIABLES
    bytes,      \* the buffer handed to TermInfo::parse, a sequence of bytes
    base,       \* address of bytes[0] modulo WORD_SIZE
    parsed,     \* result of TermInfo::parse(bytes), NotParsed before the call
    tib,        \* the owned TermInfoBuf, NoBuf while there is none
    last,       \* the last call made: its name, arguments and return value
    exe,        \* the lang::Executor, NoExe while there is none
    out         \* the bytes written so far to the io::Write handed to it

vars == <<bytes, base, parsed, tib, last, exe, out>>

----------------------------------------------------------------------------
(* Bounds of the model                                                     *)

MaxNamesLen == 2        \* names_size of the generated headers: 0..MaxNamesLen
MaxBools == 2           \* bools_count of the generated headers
MaxWords == 1           \* numbers_count and strings_count of the headers
MaxStrtab == 2          \* strtab_size of the generated headers
MaxExtCount == 1        \* each count of the generated extended headers
MaxExtStrtab == 2       \* strtab_size / last offset of the extended headers
MaxSlack == 2           \* bytes added beyond each interesting file length
MaxFields == 2          \* predefined capabilities per section of a compiled file
MaxExtFields == 1       \* extended capabilities per kind of a compiled file
MaxSetIdx == 1          \* the setters write the capabilities 0..MaxSetIdx
MaxTable == 3           \* the setters stop once a string table is longer

----------------------------------------------------------------------------
(* Program constants                                                       *)

WORD_SIZE == 8
MAGIC == 282
HEADER_SIZE == 12
EXT_HEADER_SIZE == 10

Byte == 0..255

\* util::invalid(): the terminfo INVALID value
invalid == 65535

----------------------------------------------------------------------------
(* Results                                                                 *)

Ok(v) == [kind |-> "Ok", val |-> v]
Err(e) == [kind |-> "Err", err |-> e]
Panic == [kind |-> "Panic"]
NotParsed == [kind |-> "none"]
NoCall == [op |-> "none"]
NoBuf == [kind |-> "none"]
NoExt == [some |-> FALSE]
NoExe == [kind |-> "none"]

\* no capability string is being executed
LangIdle == exe = NoExe /\ out = <<>>

----------------------------------------------------------------------------
(* Slices of the parsed buffer                                             *)

Slice(o, l) == [off |-> o, len |-> l]

\* &s[n..]; the caller checks CanSkip first, Rust panics otherwise
Skip(s, n) == Slice(s.off + n, s.len - n)
CanSkip(s, n) == n <= s.len

\* &s[..n]; the caller checks CanTake first
Take(s, n) == Slice(s.off, n)
CanTake(s, n) == n >= 0 /\ n <= s.len

\* the bytes of a slice
Bytes(mem, s) == [j \in 1..s.len |-> mem[s.off + j]]

\* read_le_u16 with the two bytes taken in big-endian order
read_be_u16(mem, s, i) ==
    IF s.len < 2 THEN invalid
    ELSE 256 * mem[s.off + 2 * i + 1] + mem[s.off + 2 * i + 2]

\* read_le_u16(b, i): b is reinterpreted as a [u16] with the same base
\* address; a slice shorter than 2 bytes reads as INVALID.  Every caller
\* reads inside the buffer.
read_le_u16(mem, s, i) ==
    IF s.len < 2 THEN invalid
    ELSE mem[s.off + 2 * i + 1] + 256 * mem[s.off + 2 * i + 2]

----------------------------------------------------------------------------
(* TermInfo::parse                                                         *)

\* strtab.iter().rev().take_while(|c| { if c == 0 { x -= 1 } x != 0 }).count()
\* over the n bytes of slice s, with x the closure's counter
RECURSIVE rev_take_while(_, _, _, _)
rev_take_while(mem, s, n, x) ==
    IF n = 0 THEN 0
    ELSE LET c == mem[s.off + n]
             x1 == IF c = 0 THEN x - 1 ELSE x
         IN IF x1 = 0 THEN 0 ELSE 1 + rev_take_while(mem, s, n - 1, x1)

split_terminfo_ext(mem, b) ==
    LET file_size == b.len IN
    IF file_size < EXT_HEADER_SIZE THEN Err("IncompleteExtendedHeader")
    ELSE
    LET bools_count == read_le_u16(mem, b, 0)
        numbers_count == read_le_u16(mem, b, 1)
        strings_count == read_le_u16(mem, b, 2)
        strtab_size == read_le_u16(mem, b, 3)
        strtab_last_offset == read_le_u16(mem, b, 4)
        names_count == strings_count + numbers_count + bools_count
        expected_filesize ==
            10 + bools_count + numbers_count * 2 + strings_count * 2
               + names_count * 2 + strtab_size
               + (IF bools_count % 2 # 0 THEN 1 ELSE 0)
    IN
    IF expected_filesize > file_size THEN Err("IncompleteExtendedTermInfo")
    ELSE
    LET s0 == Skip(b, 10)
        bools == Take(s0, bools_count)
        align == IF bools_count % 2 # 0 THEN bools_count + 1 ELSE bools_count
        s1 == Skip(s0, align)
        numbers == Take(s1, numbers_count * 2)
        s2 == Skip(s1, numbers_count * 2)
        strings == Take(s2, strings_count * 2)
        s3 == Skip(s2, strings_count * 2)
        names == Take(s3, names_count * 2)
        s4 == Skip(s3, names_count * 2)
        strtab == Take(s4, strtab_last_offset)
        inbounds ==
            /\ CanSkip(b, 10)
            /\ CanTake(s0, bools_count)
            /\ CanSkip(s0, align)
            /\ CanTake(s1, numbers_count * 2)
            /\ CanSkip(s1, numbers_count * 2)
            /\ CanTake(s2, strings_count * 2)
            /\ CanSkip(s2, strings_count * 2)
            /\ CanTake(s3, names_count * 2)
            /\ CanSkip(s3, names_count * 2)
            /\ CanTake(s4, strtab_last_offset)
    IN
    IF ~inbounds THEN Panic
    ELSE
    LET nametab_offset ==
            strtab_last_offset
              - rev_take_while(mem, strtab, strtab.len, names_count + 1)
    IN Ok([bools |-> bools, numbers |-> numbers, strings |-> strings,
           names |-> names, strtab |-> strtab,
           nametab_start |-> nametab_offset, some |-> TRUE])

\* the alignment byte counted into expected_filesize (terminfo.rs line 64):
\* `bools_count + names_size % 2 != 0` parses as
\* `(bools_count + (names_size % 2)) != 0`
size_padding(bools_count, names_size) ==
    IF bools_count + (names_size % 2) # 0 THEN 1 ELSE 0

split_terminfo(mem) ==
    LET file_size == Len(mem)
        b == Slice(0, file_size)
    IN
    IF file_size < HEADER_SIZE THEN Err("IncompleteTermInfoHeader")
    ELSE IF read_le_u16(mem, b, 0) # MAGIC THEN Err("InvalidMagicNumber")
    ELSE
    LET names_size == read_le_u16(mem, b, 1)
        bools_count == read_le_u16(mem, b, 2)
        numbers_count == read_le_u16(mem, b, 3)
        strings_count == read_le_u16(mem, b, 4)
        strtab_size == read_le_u16(mem, b, 5)
        expected_filesize ==
            12 + bools_count + numbers_count * 2 + strings_count * 2
               + strtab_size + names_size
               + size_padding(bools_count, names_size)
    IN
    IF expected_filesize > file_size THEN Err("IncompleteTermInfo")
    ELSE
    LET s0 == Skip(b, 12)
        names == Take(s0, names_size - 1)
        s1 == Skip(s0, names_size)
        bools == Take(s1, bools_count)
        align == IF (bools_count + names_size) % 2 # 0
                 THEN bools_count + 1 ELSE bools_count
        s2 == Skip(s1, align)
        numbers == Take(s2, numbers_count * 2)
        s3 == Skip(s2, numbers_count * 2)
        strings == Take(s3, strings_count * 2)
        s4 == Skip(s3, strings_count * 2)
        strtab == Take(s4, strtab_size)
        salign == IF strtab_size % 2 # 0 THEN strtab_size + 1 ELSE strtab_size
        s5 == Skip(s4, salign)
        inbounds ==
            /\ CanSkip(b, 12)
            /\ CanTake(s0, names_size - 1)
            /\ CanSkip(s0, names_size)
            /\ CanTake(s1, bools_count)
            /\ CanSkip(s1, align)
            /\ CanTake(s2, numbers_count * 2)
            /\ CanSkip(s2, numbers_count * 2)
            /\ CanTake(s3, strings_count * 2)
            /\ CanSkip(s3, strings_count * 2)
            /\ CanTake(s4, strtab_size)
            /\ CanSkip(s4, salign)
    IN
    IF ~inbounds THEN Panic
    ELSE
    LET ext == IF expected_filesize < file_size
               THEN split_terminfo_ext(mem, s5)
               ELSE Ok(NoExt)
    IN
    IF ext.kind # "Ok" THEN ext
    ELSE Ok([names |-> names, bools |-> bools, numbers |-> numbers,
             strings |-> strings, strtab |-> strtab, ext |-> ext.val])

\* TermInfo::parse
parse(mem) == split_terminfo(mem)

\* TermInfo::has_ext
has_ext(ti) == ti.ext.some

----------------------------------------------------------------------------
(* Buffers handed to TermInfo::parse                                       *)

le16(n) == <<n % 256, n \div 256>>

\* the six header words of a compiled terminfo file (terminfo.rs 46-60)
Header(m, ns, bc, nc, sc, st) ==
    le16(m) \o le16(ns) \o le16(bc) \o le16(nc) \o le16(sc) \o le16(st)

\* the five header words of the extended section (terminfo.rs 125-129)
ExtHeader(eb, en, es, est, elo) ==
    le16(eb) \o le16(en) \o le16(es) \o le16(est) \o le16(elo)

\* size of the base sections as the format lays them out: the alignment
\* byte is there exactly when names_size + bools_count is odd
BaseSize(ns, bc, nc, sc, st) ==
    12 + ns + bc + ((ns + bc) % 2) + 2 * nc + 2 * sc + st

\* where the extended header starts: after the string table's padding byte
ExtStart(ns, bc, nc, sc, st) == BaseSize(ns, bc, nc, sc, st) + (st % 2)

\* size of the extended section its header declares
ExtSize(eb, en, es, est) ==
    10 + eb + (eb % 2) + 2 * en + 2 * es + 2 * (eb + en + es) + est

\* a file of L bytes: header hdr, the words ext at offset p, zeroes elsewhere
Image(L, hdr, p, ext) ==
    [j \in 1..L |->
        IF j <= Len(hdr) THEN hdr[j]
        ELSE IF j > p /\ j <= p + Len(ext) THEN ext[j - p]
        ELSE 0]

\* 0o432, 0o1036 (the 32-bit format), the magic with its bytes swapped, and
\* a word that shares only the low byte of the magic
Magics == {MAGIC, 542, 6657, 538}

Sizes == (0..MaxNamesLen) \X (0..MaxBools) \X (0..MaxWords) \X (0..MaxWords)
            \X (0..MaxStrtab)

ExtCounts == (0..MaxExtCount) \X (0..MaxExtCount) \X (0..MaxExtCount)
                \X (0..MaxExtStrtab) \X (0..(MaxExtStrtab + 1))

\* buffers too short to hold a header
ShortFiles ==
    { Image(L, Header(m, 1, 0, 0, 0, 0), 0, <<>>) :
        L \in 0..(HEADER_SIZE - 1), m \in Magics }

\* buffers with base header (m, z) that end around the end of their base
\* sections, or a few bytes (fewer than, or exactly, an extended header)
\* after it
BaseFiles(m, z) ==
    { Image(L, Header(m, z[1], z[2], z[3], z[4], z[5]), 0, <<>>) :
        L \in { n \in (BaseSize(z[1], z[2], z[3], z[4], z[5]) - MaxSlack)
                      ..(ExtStart(z[1], z[2], z[3], z[4], z[5])
                            + EXT_HEADER_SIZE + MaxSlack) :
                n >= HEADER_SIZE } }

ExtBases == (1..MaxNamesLen) \X (0..MaxBools) \X (0..MaxStrtab)

\* buffers with base sizes z and extended header e, ending around the end
\* the extended header declares
ExtFiles(z, e) ==
    { Image(L, Header(MAGIC, z[1], z[2], 0, 0, z[3]),
            ExtStart(z[1], z[2], 0, 0, z[3]),
            ExtHeader(e[1], e[2], e[3], e[4], e[5])) :
        L \in { n \in (ExtStart(z[1], z[2], 0, 0, z[3])
                         + ExtSize(e[1], e[2], e[3], e[4]) - MaxSlack)
                      ..(ExtStart(z[1], z[2], 0, 0, z[3])
                         + ExtSize(e[1], e[2], e[3], e[4]) + MaxSlack) :
                n >= ExtStart(z[1], z[2], 0, 0, z[3]) + EXT_HEADER_SIZE } }

ParseInputs(b) ==
    \/ b \in ShortFiles
    \/ \E m \in Magics, z \in Sizes : b \in BaseFiles(m, z)
    \/ \E z \in ExtBases, e \in ExtCounts : b \in ExtFiles(z, e)

----------------------------------------------------------------------------
(* SpecParse: TermInfo::parse on arbitrary buffers                         *)

InitParse ==
    /\ ParseInputs(bytes)
    /\ base = 0
    /\ parsed = NotParsed
    /\ tib = NoBuf
    /\ last = NoCall
    /\ LangIdle

\* let info = TermInfo::parse(&data)
Parse ==
    /\ parsed = NotParsed
    /\ parsed' = parse(bytes)
    /\ last' = [op |-> "parse", arg |-> "()", ret |-> "()"]
    /\ UNCHANGED <<bytes, base, tib, exe, out>>

NextParse == Parse

SpecParse == InitParse /\ [][NextParse]_vars

----------------------------------------------------------------------------
(* The header as the claims read it                                        *)

Whole == Slice(0, Len(bytes))
StartsWithMagic == Len(bytes) >= 2 /\ bytes[1] = 26 /\ bytes[2] = 1
HdrWord(i) == bytes[2 * i + 1] + 256 * bytes[2 * i + 2]
DeclaredBase == BaseSize(HdrWord(1), HdrWord(2), HdrWord(3), HdrWord(4), HdrWord(5))
DeclaredExtStart == DeclaredBase + (HdrWord(5) % 2)
Remaining == Len(bytes) - DeclaredExtStart
ExtWord(i) == bytes[DeclaredExtStart + 2 * i + 1]
                + 256 * bytes[DeclaredExtStart + 2 * i + 2]
DeclaredExt == ExtSize(ExtWord(0), ExtWord(1), ExtWord(2), ExtWord(3))
Done == parsed # NotParsed

\* C1 (as claimed): every buffer that does not start with the magic 0o432
\* fails with InvalidMagicNumber, whatever its length.
C1_AnyLength ==
    (Done /\ ~StartsWithMagic) => parsed = Err("InvalidMagicNumber")

\* C1 (amended): every buffer of at least 12 bytes that does not start with
\* the magic 0o432 fails with InvalidMagicNumber; a shorter buffer fails
\* with IncompleteTermInfoHeader before the magic is looked at.
C1_MagicMismatch ==
    (Done /\ ~StartsWithMagic) =>
        parsed = IF Len(bytes) >= HEADER_SIZE
                 THEN Err("InvalidMagicNumber")
                 ELSE Err("IncompleteTermInfoHeader")

C1_Witness ==
    /\ parsed = Err("InvalidMagicNumber")
    /\ Len(bytes) > HEADER_SIZE
    /\ bytes[1] = 26

\* C2: for a buffer of at least 12 bytes with the right magic, parse fails
\* with IncompleteTermInfo if and only if the declared base sections, with one
\* alignment byte exactly when names_len + bool_count is odd, are longer
\* than the buffer.
C2_IncompleteIff ==
    (Done /\ Len(bytes) >= HEADER_SIZE /\ StartsWithMagic) =>
        ((parsed = Err("IncompleteTermInfo")) <=> (DeclaredBase > Len(bytes)))

\* C3: a buffer with the right magic and names_len >= 1 whose base sections
\* exactly fill it parses successfully, and the view has no extended section.
C3_ExactFill ==
    (/\ Done /\ Len(bytes) >= HEADER_SIZE /\ StartsWithMagic
     /\ HdrWord(1) >= 1
     /\ DeclaredBase = Len(bytes)) =>
        (parsed.kind = "Ok" /\ ~has_ext(parsed.val))

\* C4: when bytes remain after the base sections (the string table's padding
\* byte included): fewer than 10 give IncompleteExtendedHeader; otherwise, an
\* extended header whose sections do not fit gives IncompleteExtendedTermInfo.
\* Neither case panics.
C4_ExtendedErrors ==
    (/\ Done /\ Len(bytes) >= HEADER_SIZE /\ StartsWithMagic
     /\ HdrWord(1) >= 1
     /\ Remaining > 0) =>
        /\ Remaining < EXT_HEADER_SIZE =>
                parsed = Err("IncompleteExtendedHeader")
        /\ (Remaining >= EXT_HEADER_SIZE /\ DeclaredExt > Remaining) =>
                parsed = Err("IncompleteExtendedTermInfo")

----------------------------------------------------------------------------
(* util::strlen and the string tables                                      *)

Some(v) == [some |-> TRUE, val |-> v]
None == [some |-> FALSE]

\* the bytes of (isize::min_value() as usize) / 255 = 0x0080808080808080
\* and of HI_BITS >> 7 = 0x0001010101010101, least significant byte first
HI_BITS == <<128, 128, 128, 128, 128, 128, 128, 0>>
LO_BITS == <<1, 1, 1, 1, 1, 1, 1, 0>>

Bit7(x) == (x \div 128) % 2 = 1

\* (num.wrapping_sub(LO_BITS) & !num & HI_BITS) != 0 from byte j of the word
\* on, with `borrow` the borrow of the subtraction out of byte j - 1
RECURSIVE null_byte_from(_, _, _)
null_byte_from(w, j, borrow) ==
    IF j > WORD_SIZE THEN FALSE
    ELSE LET d == w[j] - LO_BITS[j] - borrow
             diff == (d + 256) % 256
         IN \/ (Bit7(diff) /\ Bit7(255 - w[j]) /\ Bit7(HI_BITS[j]))
            \/ null_byte_from(w, j + 1, IF d < 0 THEN 1 ELSE 0)

\* has_null_byte(num), num given as its WORD_SIZE bytes in memory order
has_null_byte(w) == null_byte_from(w, 1, 0)

\* find_zero(&mem[from..end]): bytes before the first zero, end - from if none
RECURSIVE find_zero(_, _, _)
find_zero(mem, from, end) ==
    IF from >= end THEN 0
    ELSE IF mem[from + 1] = 0 THEN 0
    ELSE 1 + find_zero(mem, from + 1, end)

\* the word loop of strlen: words i.. of the slice mem[from..end]
RECURSIVE strlen_words(_, _, _, _)
strlen_words(mem, from, end, i) ==
    IF i >= (end - from) \div WORD_SIZE THEN end - from
    ELSE IF has_null_byte([k \in 1..WORD_SIZE |-> mem[from + i * WORD_SIZE + k]])
         THEN i * WORD_SIZE + find_zero(mem, from + i * WORD_SIZE, end)
         ELSE strlen_words(mem, from, end, i + 1)

\* strlen(&mem[from..end]) where mem[0] lies at address addr (mod WORD_SIZE)
strlen(mem, addr, from, end) ==
    IF (addr + from) % WORD_SIZE = 0
    THEN strlen_words(mem, from, end, 0)
    ELSE find_zero(mem, from, end)

\* StrTable::get / StringTable::get on the table mem[lo..hi]
table_get(mem, addr, lo, hi, offset) ==
    IF offset > hi - lo THEN Err("FailedToReadStringFromTable")
    ELSE LET n == strlen(mem, addr, lo + offset, hi)
         IN Ok([j \in 1..n |-> mem[lo + offset + j]])

\* StrTable::get_iter / StringTable::get_iter collected:
\* table.iter().skip(offset).take_while(|c| c != 0)
get_iter(mem, lo, hi, offset) ==
    IF offset >= hi - lo THEN <<>>
    ELSE LET n == find_zero(mem, lo + offset, hi)
         IN [j \in 1..n |-> mem[lo + offset + j]]

\* a Vec<u8> lives in a block of the global allocator, which is word aligned
HEAP_ADDR == 0

\* StringTable::get
StringTable_get(table, offset) == table_get(table, HEAP_ADDR, 0, Len(table), offset)

\* StringTable::get_iter
StringTable_get_iter(table, offset) == get_iter(table, 0, Len(table), offset)

\* StringTable::add: the table after the call; the call returns Len(table)
StringTable_add(table, str) == table \o str \o <<0>>

----------------------------------------------------------------------------
(* The zero-copy view: TermInfo                                            *)

\* StrTable::get on a table borrowed from the parsed buffer
StrTable_get(mem, addr, t, offset) ==
    table_get(mem, addr, t.off, t.off + t.len, offset)

\* TermInfo::boolean
TermInfo_boolean(mem, ti, i) ==
    IF i < ti.bools.len THEN mem[ti.bools.off + i + 1] # 0 ELSE FALSE

\* TermInfo::number
TermInfo_number(mem, ti, i) ==
    IF i * 2 < ti.numbers.len
    THEN LET number == read_le_u16(mem, ti.numbers, i)
         IN IF number # invalid THEN Some(number) ELSE None
    ELSE None

\* TermInfo::string; Panic is the unwrap() of an Err
TermInfo_string(mem, addr, ti, i) ==
    IF i * 2 < ti.strings.len /\ read_le_u16(mem, ti.strings, i) # invalid
    THEN LET r == StrTable_get(mem, addr, ti.strtab,
                               read_le_u16(mem, ti.strings, i))
         IN IF r.kind = "Ok" THEN Some(r.val) ELSE Panic
    ELSE None

\* TermInfo::ext_index: the first entry of the name array whose string equals s
RECURSIVE ext_index_from(_, _, _, _)
ext_index_from(mem, e, s, i) ==
    IF 2 * i >= e.names.len THEN None
    ELSE LET num == read_le_u16(mem, Skip(e.names, 2 * i), 0)
         IN IF get_iter(mem, e.strtab.off, e.strtab.off + e.strtab.len,
                        num + e.nametab_start) = s
            THEN Some(i)
            ELSE ext_index_from(mem, e, s, i + 1)

TermInfo_ext_index(mem, ti, s) ==
    IF ti.ext.some THEN ext_index_from(mem, ti.ext, s, 0) ELSE None

\* TermInfo::ext_boolean
TermInfo_ext_boolean(mem, ti, field) ==
    LET idx == TermInfo_ext_index(mem, ti, field)
    IN IF ti.ext.some /\ idx.some /\ idx.val < ti.ext.bools.len
       THEN mem[ti.ext.bools.off + idx.val + 1] # 0
       ELSE FALSE

\* TermInfo::ext_number; ext.numbers.len() is the length in bytes
TermInfo_ext_number(mem, ti, field) ==
    LET idx == TermInfo_ext_index(mem, ti, field)
        idx_offset == ti.ext.bools.len
    IN IF /\ ti.ext.some /\ idx.some
          /\ idx.val >= idx_offset
          /\ idx.val - idx_offset < ti.ext.numbers.len
          /\ read_le_u16(mem, ti.ext.numbers, idx.val - idx_offset) # invalid
       THEN Some(read_le_u16(mem, ti.ext.numbers, idx.val - idx_offset))
       ELSE None

\* TermInfo::ext_string
TermInfo_ext_string(mem, addr, ti, field) ==
    LET idx == TermInfo_ext_index(mem, ti, field)
        idx_offset == ti.ext.bools.len + (ti.ext.numbers.len \div 2)
    IN IF /\ ti.ext.some /\ idx.some
          /\ idx.val >= idx_offset
          /\ idx.val - idx_offset < ti.ext.strings.len \div 2
          /\ read_le_u16(mem, ti.ext.strings, idx.val - idx_offset) # invalid
       THEN LET r == StrTable_get(mem, addr, ti.ext.strtab,
                        read_le_u16(mem, ti.ext.strings, idx.val - idx_offset))
            IN IF r.kind = "Ok" THEN Some(r.val) ELSE None
       ELSE None

----------------------------------------------------------------------------
(* The owned buffer: TermInfoBuf                                           *)

\* chunks(2).map(|n| read_le_u16(n, 0)).collect() over a slice of the buffer
words_of(mem, s) ==
    [j \in 1..((s.len + 1) \div 2) |-> read_le_u16(mem, Skip(s, 2 * (j - 1)), 0)]

\* TermInfo::get_numbers, get_string_offsets, TermInfoExt::get_name_offsets
get_numbers(mem, t) == words_of(mem, t.numbers)
get_string_offsets(mem, t) == words_of(mem, t.strings)
get_name_offsets(mem, t) == words_of(mem, t.names)

\* TermInfo::get_bools
get_bools(mem, t) == [j \in 1..t.bools.len |-> mem[t.bools.off + j] # 0]

\* TermInfo::names: the name slice split at every '|' (byte 124)
RECURSIVE split_names(_, _)
split_names(str, cur) ==
    IF str = <<>> THEN <<cur>>
    ELSE IF Head(str) = 124 THEN <<cur>> \o split_names(Tail(str), <<>>)
    ELSE split_names(Tail(str), Append(cur, Head(str)))

TermInfo_names(mem, ti) == split_names(Bytes(mem, ti.names), <<>>)

\* TermInfoExt::get_tables: strtab.split(nametab_start)
get_tables(mem, e) ==
    <<Bytes(mem, Take(e.strtab, e.nametab_start)),
      Bytes(mem, Skip(e.strtab, e.nametab_start))>>

\* TermInfoBuf::from_terminfo
from_terminfo(mem, ti) ==
    [names |-> TermInfo_names(mem, ti),
     bools |-> get_bools(mem, ti),
     numbers |-> get_numbers(mem, ti),
     strings |-> get_string_offsets(mem, ti),
     strtab |-> Bytes(mem, ti.strtab),
     ext |-> IF ti.ext.some
             THEN [some |-> TRUE,
                   bools |-> get_bools(mem, ti.ext),
                   numbers |-> get_numbers(mem, ti.ext),
                   strings |-> get_string_offsets(mem, ti.ext),
                   names |-> get_name_offsets(mem, ti.ext),
                   strtab |-> get_tables(mem, ti.ext)[1],
                   nametab |-> get_tables(mem, ti.ext)[2]]
             ELSE NoExt]

\* TermInfoBuf::new
TermInfoBuf_new ==
    [names |-> <<>>, bools |-> <<>>, numbers |-> <<>>, strings |-> <<>>,
     strtab |-> <<>>, ext |-> NoExt]

\* TermInfoExtBuf::new
TermInfoExtBuf_new ==
    [some |-> TRUE, bools |-> <<>>, numbers |-> <<>>, strings |-> <<>>,
     names |-> <<>>, strtab |-> <<>>, nametab |-> <<>>]

\* vec.iter().nth(i), with `dflt` for unwrap_or
nth_or(vec, i, dflt) == IF i < Len(vec) THEN vec[i + 1] ELSE dflt

\* TermInfoBuf::boolean
boolean(b, i) == nth_or(b.bools, i, FALSE)

\* TermInfoBuf::number
number(b, i) ==
    LET x == nth_or(b.numbers, i, invalid)
    IN IF x = invalid THEN None ELSE Some(x)

\* TermInfoBuf::string
string(b, i) ==
    LET r == StringTable_get(b.strtab, nth_or(b.strings, i, invalid))
    IN IF r.kind = "Ok" THEN Some(r.val) ELSE None

\* TermInfoBuf::ext_index
RECURSIVE buf_ext_index_from(_, _, _)
buf_ext_index_from(e, s, i) ==
    IF i >= Len(e.names) THEN None
    ELSE IF StringTable_get_iter(e.nametab, e.names[i + 1]) = s THEN Some(i)
    ELSE buf_ext_index_from(e, s, i + 1)

ext_index(b, s) == IF b.ext.some THEN buf_ext_index_from(b.ext, s, 0) ELSE None

\* TermInfoBuf::ext_boolean
ext_boolean(b, field) ==
    LET idx == ext_index(b, field)
    IN IF b.ext.some /\ idx.some /\ idx.val < Len(b.ext.bools)
       THEN b.ext.bools[idx.val + 1]
       ELSE FALSE

\* TermInfoBuf::ext_number
ext_number(b, field) ==
    LET idx == ext_index(b, field)
        idx_offset == Len(b.ext.bools)
    IN IF /\ b.ext.some /\ idx.some
          /\ idx.val >= idx_offset
          /\ idx.val - idx_offset < Len(b.ext.numbers)
       THEN Some(b.ext.numbers[idx.val - idx_offset + 1])
       ELSE None

\* TermInfoBuf::ext_string
ext_string(b, field) ==
    LET idx == ext_index(b, field)
        idx_offset == Len(b.ext.bools) + Len(b.ext.numbers)
    IN IF /\ b.ext.some /\ idx.some
          /\ idx.val >= idx_offset
          /\ idx.val - idx_offset < Len(b.ext.strings)
       THEN LET r == StringTable_get(b.ext.strtab,
                                     b.ext.strings[idx.val - idx_offset + 1])
            IN IF r.kind = "Ok" THEN Some(r.val) ELSE None
       ELSE None

----------------------------------------------------------------------------
(* The setters.  Each yields [ret, buf]: the value returned and the buffer *)
(* the call leaves behind.                                                 *)

Unit == "()"
Outcome(r, b) == [ret |-> r, buf |-> b]

\* while vec.len() <= i { vec.push(filler) }
grow(vec, i, filler) ==
    IF Len(vec) <= i THEN vec \o [j \in 1..(i + 1 - Len(vec)) |-> filler]
    ELSE vec

\* `x as u16`
as_u16(x) == x % 65536

\* Vec::insert(index, element); the caller checks index <= len
insert(vec, index, element) ==
    SubSeq(vec, 1, index) \o <<element>> \o SubSeq(vec, index + 1, Len(vec))

\* TermInfoBuf::set_boolean
set_boolean(b, i, v) ==
    Outcome(Ok(Unit), [b EXCEPT !.bools = [grow(b.bools, i, FALSE) EXCEPT ![i + 1] = v]])

\* TermInfoBuf::set_number
set_number(b, i, v) ==
    Outcome(Ok(Unit), [b EXCEPT !.numbers = [grow(b.numbers, i, invalid) EXCEPT ![i + 1] = v]])

\* TermInfoBuf::set_string
set_string(b, i, v) ==
    LET grown == grow(b.strings, i, invalid)
        offset == Len(b.strtab)
        table == StringTable_add(b.strtab, v)
    IN IF offset >= invalid - 1
       THEN Outcome(Err("MaxStrTabSizeReached"),
                    [b EXCEPT !.strings = grown, !.strtab = table])
       ELSE Outcome(Ok(Unit),
                    [b EXCEPT !.strings = [grown EXCEPT ![i + 1] = as_u16(offset)],
                              !.strtab = table])

\* u16::max_value()
U16_MAX == 65535

\* TermInfoBuf::set_ext_boolean
set_ext_boolean(b, field, v) ==
    LET idx == ext_index(b, field)
        ext == b.ext
    IN
    IF ext.some THEN
        IF Len(ext.bools) > U16_MAX /\ ~idx.some
        THEN Outcome(Err("MaximumCapabilityCountExceeded"), b)
        ELSE IF idx.some
        THEN IF idx.val < Len(ext.bools)
             THEN Outcome(Ok(Unit), [b EXCEPT !.ext.bools[idx.val + 1] = v])
             ELSE Outcome(Panic, b)
        ELSE
        LET offset == Len(ext.nametab)
            added == [b EXCEPT !.ext.nametab = StringTable_add(ext.nametab, field)]
            pushed == [added EXCEPT !.ext.bools = Append(ext.bools, v)]
        IN IF offset >= invalid - 1
           THEN Outcome(Err("MaxStrTabSizeReached"), added)
           ELSE IF Len(pushed.ext.bools) > Len(ext.names)
           THEN Outcome(Panic, pushed)
           ELSE Outcome(Ok(Unit),
                    [pushed EXCEPT !.ext.names =
                        insert(ext.names, Len(pushed.ext.bools), as_u16(offset))])
    ELSE
        LET new == TermInfoExtBuf_new
            offset == Len(new.nametab)
        IN IF offset >= invalid - 1
           THEN Outcome(Err("MaxStrTabSizeReached"), b)
           ELSE Outcome(Ok(Unit),
                    [b EXCEPT !.ext =
                        [new EXCEPT !.bools = Append(new.bools, v),
                                    !.nametab = StringTable_add(new.nametab, field),
                                    !.names = Append(new.names, as_u16(offset))]])

\* TermInfoBuf::set_ext_number
set_ext_number(b, field, v) ==
    LET idx == ext_index(b, field)
        ext == b.ext
    IN
    IF ext.some THEN
        IF Len(ext.bools) > U16_MAX /\ ~idx.some
        THEN Outcome(Err("MaximumCapabilityCountExceeded"), b)
        ELSE IF idx.some
        THEN LET x == idx.val
                 xoff == Len(ext.bools)
             IN IF x > xoff /\ x < xoff + Len(b.numbers)
                THEN Outcome(Ok(Unit), [b EXCEPT !.numbers[x - xoff + 1] = v])
                ELSE Outcome(Ok(Unit), b)
        ELSE
        LET offset == Len(ext.nametab)
            added == [b EXCEPT !.ext.nametab = StringTable_add(ext.nametab, field)]
            pushed == [added EXCEPT !.ext.numbers = Append(ext.numbers, v)]
        IN IF offset >= invalid - 1
           THEN Outcome(Err("MaxStrTabSizeReached"), added)
           ELSE IF Len(pushed.ext.numbers) > Len(ext.names)
           THEN Outcome(Panic, pushed)
           ELSE Outcome(Ok(Unit),
                    [pushed EXCEPT !.ext.names =
                        insert(ext.names, Len(pushed.ext.numbers), as_u16(offset))])
    ELSE
        LET new == TermInfoExtBuf_new
            offset == Len(new.nametab)
        IN IF offset >= invalid - 1
           THEN Outcome(Err("MaxStrTabSizeReached"), b)
           ELSE Outcome(Ok(Unit),
                    [b EXCEPT !.ext =
                        [new EXCEPT !.numbers = Append(new.numbers, v),
                                    !.nametab = StringTable_add(new.nametab, field),
                                    !.names = Append(new.names, as_u16(offset))]])

\* TermInfoBuf::set_ext_string
set_ext_string(b, field, v) ==
    LET idx == ext_index(b, field)
        ext == b.ext
    IN
    IF ext.some THEN
        IF Len(ext.bools) > U16_MAX /\ ~idx.some
        THEN Outcome(Err("MaximumCapabilityCountExceeded"), b)
        ELSE
        LET strtab_ref == as_u16(Len(ext.strtab))
            stored == [b EXCEPT !.ext.strtab = StringTable_add(ext.strtab, v)]
        IN
        IF strtab_ref >= invalid - 1
        THEN Outcome(Err("MaxStrTabSizeReached"), stored)
        ELSE IF idx.some
        THEN LET x == idx.val
                 xoff == Len(ext.bools)
             IN IF x > xoff /\ x < xoff + Len(b.strings)
                THEN Outcome(Ok(Unit), [stored EXCEPT !.strings[x - xoff + 1] = strtab_ref])
                ELSE Outcome(Ok(Unit), stored)
        ELSE
        LET offset == Len(ext.nametab)
            added == [stored EXCEPT !.ext.nametab = StringTable_add(ext.nametab, field)]
            pushed == [added EXCEPT !.ext.strings = Append(ext.strings, strtab_ref)]
        IN IF offset >= invalid - 1
           THEN Outcome(Err("MaxStrTabSizeReached"), added)
           ELSE IF Len(pushed.ext.strings) > Len(ext.names)
           THEN Outcome(Panic, pushed)
           ELSE Outcome(Ok(Unit),
                    [pushed EXCEPT !.ext.names =
                        insert(ext.names, Len(pushed.ext.strings), as_u16(offset))])
    ELSE
        LET new == TermInfoExtBuf_new
            strtab_ref == as_u16(Len(new.strtab))
            offset == Len(new.nametab)
        IN IF strtab_ref >= invalid - 1 \/ offset >= invalid - 1
           THEN Outcome(Err("MaxStrTabSizeReached"), b)
           ELSE Outcome(Ok(Unit),
                    [b EXCEPT !.ext =
                        [new EXCEPT !.strtab = StringTable_add(new.strtab, v),
                                    !.strings = Append(new.strings, strtab_ref),
                                    !.nametab = StringTable_add(new.nametab, field),
                                    !.names = Append(new.names, as_u16(offset))]])

----------------------------------------------------------------------------
(* Compiled terminfo files, laid out as tic writes them (term(5))          *)

RECURSIVE Words(_)
Words(ws) == IF ws = <<>> THEN <<>> ELSE le16(Head(ws)) \o Words(Tail(ws))

Pad(n) == IF n % 2 # 0 THEN <<0>> ELSE <<>>

RECURSIVE Flatten(_)
Flatten(strs) ==
    IF strs = <<>> THEN <<>> ELSE Head(strs) \o <<0>> \o Flatten(Tail(strs))

\* offsets of the strings of Flatten(strs) in it
RECURSIVE Offsets(_, _)
Offsets(strs, at) ==
    IF strs = <<>> THEN <<>>
    ELSE <<at>> \o Offsets(Tail(strs), at + Len(Head(strs)) + 1)

\* the extended section: header (counts, number of strings in the table,
\* size of the table), the three arrays, the name offsets, the value
\* strings and then the names
CompileExt(e) ==
    ExtHeader(Len(e.bools), Len(e.numbers), Len(e.strings),
              Len(e.strings) + Len(e.names),
              Len(e.strtab) + Len(Flatten(e.names)))
      \o e.bools \o Pad(Len(e.bools))
      \o Words(e.numbers) \o Words(e.strings)
      \o Words(Offsets(e.names, 0))
      \o e.strtab \o Flatten(e.names)

Compile(f) ==
    Header(MAGIC, Len(f.names) + 1, Len(f.bools), Len(f.numbers),
           Len(f.strings), Len(f.strtab))
      \o f.names \o <<0>>
      \o f.bools \o Pad(Len(f.names) + 1 + Len(f.bools))
      \o Words(f.numbers) \o Words(f.strings)
      \o f.strtab
      \o (IF f.ext.some THEN Pad(Len(f.strtab)) \o CompileExt(f.ext) ELSE <<>>)

SeqsUpTo(S, n) == UNION { [1..k -> S] : k \in 0..n }

\* "x", "y" and "z"
ExtNames == {<<120>>, <<121>>, <<122>>}

\* "", "A\0" and "A\0BCDEFG\0"
StrTabs == {<<>>, <<65, 0>>, <<65, 0, 66, 67, 68, 69, 70, 71, 0>>}

\* string offsets: the strings of StrTabs, the cancelled (-2) and the absent
\* (-1) capability
StrOffsets == {0, 2, 65534, 65535}

NumberValues == {8, 65535}

PlainFile ==
    [names |-> <<97>>, bools |-> <<>>, numbers |-> <<>>, strings |-> <<>>,
     strtab |-> <<>>, ext |-> NoExt]

\* extended sections: up to MaxExtFields capabilities of each kind, named
\* x or y in any combination
ExtSections ==
    { [some |-> TRUE, bools |-> bs, numbers |-> ns, strings |-> ss,
       names |-> nm, strtab |-> tab] :
        bs \in SeqsUpTo({1}, MaxExtFields),
        ns \in SeqsUpTo({7}, MaxExtFields),
        ss \in SeqsUpTo({0}, MaxExtFields),
        nm \in SeqsUpTo({<<120>>, <<121>>}, 3 * MaxExtFields),
        tab \in {<<118, 0>>} }

WellFormedExt(e) == Len(e.names) = Len(e.bools) + Len(e.numbers) + Len(e.strings)

\* the files the view is built from: the predefined sections vary over a
\* file without and a file with an extended section, the string section
\* and the extended section vary on their own
ViewFiles ==
    { [PlainFile EXCEPT !.bools = bs, !.numbers = ns, !.ext = e] :
        bs \in SeqsUpTo({0, 1}, MaxFields),
        ns \in SeqsUpTo(NumberValues, MaxFields),
        e \in {NoExt} \cup { x \in ExtSections : Len(x.names) = 1 /\ Len(x.bools) = 1 } }
    \cup
    { [PlainFile EXCEPT !.strings = ss, !.strtab = tab, !.names = nm] :
        ss \in SeqsUpTo(StrOffsets, MaxFields), tab \in StrTabs,
        nm \in {<<97>>, <<97, 124, 98>>} }
    \cup
    { [PlainFile EXCEPT !.ext = e] : e \in { x \in ExtSections : WellFormedExt(x) } }

ViewInputs == { Compile(f) : f \in ViewFiles }

----------------------------------------------------------------------------
(* SpecView: a parsed view, its conversion and the getters of both         *)

Fields == 0..MaxFields

InitView ==
    /\ bytes \in ViewInputs
    /\ base \in 0..(WORD_SIZE - 1)
    /\ parsed = NotParsed
    /\ tib = NoBuf
    /\ last = NoCall
    /\ LangIdle

Call(op, arg, ret) == [op |-> op, arg |-> arg, ret |-> ret]

\* a panic ends the program: nothing is called after it
Aborted ==
    /\ last.op \in {"TermInfo::string", "set_ext_boolean", "set_ext_number",
                    "set_ext_string"}
    /\ last.ret = Panic

Viewable == parsed.kind = "Ok" /\ ~Aborted
Usable == tib # NoBuf /\ ~Aborted

\* let buf: TermInfoBuf = info.into()
FromTerminfo ==
    /\ Viewable
    /\ tib = NoBuf
    /\ tib' = from_terminfo(bytes, parsed.val)
    /\ last' = Call("from_terminfo", Unit, Unit)
    /\ UNCHANGED <<bytes, base, parsed, exe, out>>

ViewBoolean ==
    /\ Viewable
    /\ \E i \in Fields :
        last' = Call("TermInfo::boolean", i, TermInfo_boolean(bytes, parsed.val, i))
    /\ UNCHANGED <<bytes, base, parsed, tib, exe, out>>

ViewNumber ==
    /\ Viewable
    /\ \E i \in Fields :
        last' = Call("TermInfo::number", i, TermInfo_number(bytes, parsed.val, i))
    /\ UNCHANGED <<bytes, base, parsed, tib, exe, out>>

ViewString ==
    /\ Viewable
    /\ \E i \in Fields :
        last' = Call("TermInfo::string", i, TermInfo_string(bytes, base, parsed.val, i))
    /\ UNCHANGED <<bytes, base, parsed, tib, exe, out>>

ViewExtBoolean ==
    /\ Viewable
    /\ \E n \in ExtNames :
        last' = Call("TermInfo::ext_boolean", n, TermInfo_ext_boolean(bytes, parsed.val, n))
    /\ UNCHANGED <<bytes, base, parsed, tib, exe, out>>

ViewExtNumber ==
    /\ Viewable
    /\ \E n \in ExtNames :
        last' = Call("TermInfo::ext_number", n, TermInfo_ext_number(bytes, parsed.val, n))
    /\ UNCHANGED <<bytes, base, parsed, tib, exe, out>>

ViewExtString ==
    /\ Viewable
    /\ \E n \in ExtNames :
        last' = Call("TermInfo::ext_string", n,
                     TermInfo_ext_string(bytes, base, parsed.val, n))
    /\ UNCHANGED <<bytes, base, parsed, tib, exe, out>>


BufBoolean ==
    /\ Usable
    /\ \E i \in Fields : last' = Call("TermInfoBuf::boolean", i, boolean(tib, i))
    /\ UNCHANGED <<bytes, base, parsed, tib, exe, out>>

BufNumber ==
    /\ Usable
    /\ \E i \in Fields : last' = Call("TermInfoBuf::number", i, number(tib, i))
    /\ UNCHANGED <<bytes, base, parsed, tib, exe, out>>

BufString ==
    /\ Usable
    /\ \E i \in Fields : last' = Call("TermInfoBuf::string", i, string(tib, i))
    /\ UNCHANGED <<bytes, base, parsed, tib, exe, out>>

BufExtBoolean ==
    /\ Usable
    /\ \E n \in ExtNames : last' = Call("TermInfoBuf::ext_boolean", n, ext_boolean(tib, n))
    /\ UNCHANGED <<bytes, base, parsed, tib, exe, out>>

BufExtNumber ==
    /\ Usable
    /\ \E n \in ExtNames : last' = Call("TermInfoBuf::ext_number", n, ext_number(tib, n))
    /\ UNCHANGED <<bytes, base, parsed, tib, exe, out>>

BufExtString ==
    /\ Usable
    /\ \E n \in ExtNames : last' = Call("TermInfoBuf::ext_string", n, ext_string(tib, n))
    /\ UNCHANGED <<bytes, base, parsed, tib, exe, out>>

NextView ==
    \/ Parse
    \/ FromTerminfo
    \/ ViewBoolean \/ ViewNumber \/ ViewString
    \/ ViewExtBoolean \/ ViewExtNumber \/ ViewExtString
    \/ BufBoolean \/ BufNumber \/ BufString
    \/ BufExtBoolean \/ BufExtNumber \/ BufExtString

SpecView == InitView /\ [][NextView]_vars

----------------------------------------------------------------------------
(* SpecSet, SpecExt: the setters and getters of an owned buffer           *)

\* a file with one string, and a file with capabilities of every kind,
\* predefined and extended (x, y and z)
BufFiles ==
    { [PlainFile EXCEPT !.strings = <<0>>, !.strtab = <<65, 0>>],
      [PlainFile EXCEPT !.bools = <<1>>, !.numbers = <<8>>,
          !.ext = [some |-> TRUE, bools |-> <<1>>, numbers |-> <<7>>,
                   strings |-> <<0>>, names |-> <<<<120>>, <<121>>, <<122>>>>,
                   strtab |-> <<118, 0>>]] }

\* TermInfoBuf::new(), or TermInfo::parse(&data).unwrap().into()
InitBuf ==
    /\ base = 0
    /\ last = NoCall
    /\ LangIdle
    /\ \/ /\ bytes = <<>>
          /\ parsed = NotParsed
          /\ tib = TermInfoBuf_new
       \/ \E f \in BufFiles :
            /\ bytes = Compile(f)
            /\ parsed = parse(Compile(f))
            /\ tib = from_terminfo(Compile(f), parse(Compile(f)).val)

SetFields == 0..MaxSetIdx
SetNumbers == {8, invalid}
\* "" and "B"
SetStrings == {<<>>, <<66>>}

SetBoolean ==
    /\ Usable
    /\ \E i \in SetFields, v \in BOOLEAN :
        /\ tib' = set_boolean(tib, i, v).buf
        /\ last' = Call("set_boolean", <<i, v>>, set_boolean(tib, i, v).ret)
    /\ UNCHANGED <<bytes, base, parsed, exe, out>>

SetNumber ==
    /\ Usable
    /\ \E i \in SetFields, v \in SetNumbers :
        /\ tib' = set_number(tib, i, v).buf
        /\ last' = Call("set_number", <<i, v>>, set_number(tib, i, v).ret)
    /\ UNCHANGED <<bytes, base, parsed, exe, out>>

\* set_string on a table whose length lies in lo..hi
SetStringIn(lo, hi) ==
    /\ Usable
    /\ Len(tib.strtab) \in lo..hi
    /\ \E i \in SetFields, v \in SetStrings :
        /\ tib' = set_string(tib, i, v).buf
        /\ last' = Call("set_string", <<i, v>>, set_string(tib, i, v).ret)
    /\ UNCHANGED <<bytes, base, parsed, exe, out>>

SetString == SetStringIn(0, MaxTable)

SetExtBoolean ==
    /\ Usable
    /\ \E n \in ExtNames, v \in BOOLEAN :
        /\ tib' = set_ext_boolean(tib, n, v).buf
        /\ last' = Call("set_ext_boolean", <<n, v>>, set_ext_boolean(tib, n, v).ret)
    /\ UNCHANGED <<bytes, base, parsed, exe, out>>

SetExtNumber ==
    /\ Usable
    /\ \E n \in ExtNames, v \in SetNumbers :
        /\ tib' = set_ext_number(tib, n, v).buf
        /\ last' = Call("set_ext_number", <<n, v>>, set_ext_number(tib, n, v).ret)
    /\ UNCHANGED <<bytes, base, parsed, exe, out>>

\* the extended value table of a buffer (empty before the first set_ext_*)
ExtTable(b) == IF b.ext.some THEN b.ext.strtab ELSE <<>>

\* set_ext_string on an extended value table whose length lies in lo..hi
SetExtStringIn(lo, hi) ==
    /\ Usable
    /\ Len(ExtTable(tib)) \in lo..hi
    /\ \E n \in ExtNames, v \in SetStrings :
        /\ tib' = set_ext_string(tib, n, v).buf
        /\ last' = Call("set_ext_string", <<n, v>>, set_ext_string(tib, n, v).ret)
    /\ UNCHANGED <<bytes, base, parsed, exe, out>>

SetExtString == SetExtStringIn(0, MaxTable)

NextSet ==
    \/ SetBoolean \/ SetNumber \/ SetString
    \/ BufBoolean \/ BufNumber \/ BufString

SpecSet == InitBuf /\ [][NextSet]_vars

NextExt ==
    \/ SetExtBoolean \/ SetExtNumber \/ SetExtString
    \/ BufExtBoolean \/ BufExtNumber \/ BufExtString

SpecExt == InitBuf /\ [][NextExt]_vars

----------------------------------------------------------------------------
(* Claims about the getters (SpecView)                                     *)

\* the 16-bit datum stored at index i of a section of the parsed buffer
Stored(sec, i) == bytes[sec.off + 2 * i + 1] + 256 * bytes[sec.off + 2 * i + 2]
InRange(sec, i) == 2 * i + 1 < sec.len

\* the NUL-terminated string at offset o of the table mem[lo..hi], byte by byte
CStr(mem, lo, hi, o) ==
    LET n == CHOOSE k \in 0..(hi - lo - o) :
                /\ \A j \in 1..k : mem[lo + o + j] # 0
                /\ (k = hi - lo - o \/ mem[lo + o + k + 1] = 0)
    IN [j \in 1..n |-> mem[lo + o + j]]

\* C5: boolean(i) never fails and is false out of range; number(i) and
\* string(i) are absent if and only if i is out of range or the stored
\* datum is 0xFFFF, and never abort; on the view and on the owned buffer.
C5_GettersTotal ==
    /\ last.op = "TermInfo::boolean" =>
            /\ last.ret \in BOOLEAN
            /\ last.arg >= parsed.val.bools.len => last.ret = FALSE
    /\ last.op = "TermInfo::number" =>
            /\ last.ret = None <=>
                    (~InRange(parsed.val.numbers, last.arg)
                        \/ Stored(parsed.val.numbers, last.arg) = invalid)
            /\ last.ret # None => last.ret.some
    /\ last.op = "TermInfo::string" =>
            /\ last.ret = None <=>
                    (~InRange(parsed.val.strings, last.arg)
                        \/ Stored(parsed.val.strings, last.arg) = invalid)
            /\ last.ret # None => (last.ret # Panic /\ last.ret.some)
    /\ last.op = "TermInfoBuf::boolean" =>
            /\ last.ret \in BOOLEAN
            /\ last.arg >= Len(tib.bools) => last.ret = FALSE
    /\ last.op = "TermInfoBuf::number" =>
            /\ last.ret = None <=>
                    (last.arg >= Len(tib.numbers)
                        \/ tib.numbers[last.arg + 1] = invalid)
            /\ last.ret # None => last.ret.some
    /\ last.op = "TermInfoBuf::string" =>
            /\ last.ret = None <=>
                    (last.arg >= Len(tib.strings)
                        \/ tib.strings[last.arg + 1] = invalid)
            /\ last.ret # None => last.ret.some

\* C6: the owned buffer converted from a view answers boolean(i), number(i)
\* and string(i) as the view does, for every capability index i.
C6_BufEqualsView ==
    (tib # NoBuf /\ parsed.kind = "Ok") =>
        \A i \in Fields :
            /\ boolean(tib, i) = TermInfo_boolean(bytes, parsed.val, i)
            /\ number(tib, i) = TermInfo_number(bytes, parsed.val, i)
            /\ string(tib, i) = TermInfo_string(bytes, base, parsed.val, i)

\* the first entry of the extended name array whose name is n, if any
NameAt(j) ==
    LET e == parsed.val.ext
    IN CStr(bytes, e.strtab.off, e.strtab.off + e.strtab.len,
            e.nametab_start + Stored(e.names, j))
Matches(n) ==
    { j \in 0..((parsed.val.ext.names.len \div 2) - 1) : NameAt(j) = n }
FirstMatch(n) == CHOOSE j \in Matches(n) : \A k \in Matches(n) : j <= k

ExtBools == parsed.val.ext.bools.len
ExtNumbers == parsed.val.ext.numbers.len \div 2
ExtStrings == parsed.val.ext.strings.len \div 2

\* C10: ext_boolean, ext_number and ext_string of the view return a value
\* only when the first name-array entry equal to the name lies in the
\* boolean, numeric, respectively string part of the array, and then the
\* datum at the section-local index; any other name yields false / absent.
C10_ExtSectionLocal ==
    /\ last.op = "TermInfo::ext_boolean" =>
         last.ret =
            (/\ has_ext(parsed.val)
             /\ Matches(last.arg) # {}
             /\ FirstMatch(last.arg) < ExtBools
             /\ bytes[parsed.val.ext.bools.off + FirstMatch(last.arg) + 1] # 0)
    /\ last.op = "TermInfo::ext_number" =>
         IF /\ has_ext(parsed.val)
            /\ Matches(last.arg) # {}
            /\ FirstMatch(last.arg) >= ExtBools
            /\ FirstMatch(last.arg) < ExtBools + ExtNumbers
         THEN LET d == Stored(parsed.val.ext.numbers, FirstMatch(last.arg) - ExtBools)
              IN last.ret = IF d = invalid THEN None ELSE Some(d)
         ELSE last.ret = None
    /\ last.op = "TermInfo::ext_string" =>
         IF /\ has_ext(parsed.val)
            /\ Matches(last.arg) # {}
            /\ FirstMatch(last.arg) >= ExtBools + ExtNumbers
            /\ FirstMatch(last.arg) < ExtBools + ExtNumbers + ExtStrings
         THEN LET d == Stored(parsed.val.ext.strings,
                              FirstMatch(last.arg) - ExtBools - ExtNumbers)
                  t == parsed.val.ext.strtab
              IN d <= t.len =>
                    last.ret = Some(CStr(bytes, t.off, t.off + t.len, d))
         ELSE last.ret = None

----------------------------------------------------------------------------
(* Owned buffers whose string tables are close to the 16-bit offset limit  *)

\* the setters are followed on tables of NearFull bytes or more, until the
\* table is MaxOver bytes past 0xFFFF
NearFull == 65530
MaxOver == 1

\* sizes of the string table of a file (an odd-sized table that ends the
\* file is not parsed) and of the value part of its extended table (whose
\* names take 4 of the 0xFFFF bytes)
BigSizes == {U16_MAX - 3, U16_MAX - 1}
BigExtSizes == {U16_MAX - 5, U16_MAX - 4}

\* a table of n bytes: the string "AA...A" and its terminator
BigTable(n) == [j \in 1..n |-> IF j = n THEN 0 ELSE 65]

BigFiles ==
    { [PlainFile EXCEPT !.strings = <<0>>, !.strtab = BigTable(n)] : n \in BigSizes }
    \cup
    { [PlainFile EXCEPT
          !.ext = [some |-> TRUE, bools |-> <<1>>, numbers |-> <<>>,
                   strings |-> <<0>>, names |-> <<<<120>>, <<122>>>>,
                   strtab |-> BigTable(n)]] : n \in BigExtSizes }

\* TermInfoBuf::from(TermInfo::parse(&data).unwrap()); data is dropped
InitBig ==
    /\ base = 0
    /\ last = NoCall
    /\ LangIdle
    /\ bytes = <<>>
    /\ parsed = NotParsed
    /\ \E f \in BigFiles : tib = from_terminfo(Compile(f), parse(Compile(f)).val)

BigSetString == SetStringIn(NearFull, U16_MAX + MaxOver)
BigSetExtString == SetExtStringIn(NearFull, U16_MAX + MaxOver)

NextBig == BigSetString \/ BigSetExtString

SpecBig == InitBig /\ [][NextBig]_vars

----------------------------------------------------------------------------
(* Claims about the setters (SpecSet, SpecExt, SpecBig)                    *)

\* C7: a successful set_boolean(idx, v), set_number(idx, v) or
\* set_string(idx, v) followed by the getter of the same kind at idx
\* yields v.
C7_SetThenGet ==
    /\ (last.op = "set_boolean" /\ last.ret = Ok(Unit)) =>
            boolean(tib, last.arg[1]) = last.arg[2]
    /\ (last.op = "set_number" /\ last.ret = Ok(Unit)) =>
            number(tib, last.arg[1]) = Some(last.arg[2])
    /\ (last.op = "set_string" /\ last.ret = Ok(Unit)) =>
            string(tib, last.arg[1]) = Some(last.arg[2])

\* the entry of the extended string array that belongs to name n
ExtStringSlot(b, n) ==
    ext_index(b, n).val - Len(b.ext.bools) - Len(b.ext.numbers) + 1

\* C8: set_string and set_ext_string append the value and its terminator
\* at the end of the string table, fail with MaxStrTabSizeReached exactly
\* when the old length of the table (the offset of the value) is >= 0xFFFE,
\* and otherwise succeed and store that offset for the capability.
C8_AppendAndLimit ==
    [][ /\ last'.op = "set_string" =>
            LET i == last'.arg[1]
                v == last'.arg[2]
                offset == Len(tib.strtab)
            IN /\ tib'.strtab = tib.strtab \o v \o <<0>>
               /\ (last'.ret = Err("MaxStrTabSizeReached")) <=> (offset >= 65534)
               /\ offset < 65534 =>
                    /\ last'.ret = Ok(Unit)
                    /\ tib'.strings[i + 1] = offset
        /\ last'.op = "set_ext_string" =>
            LET n == last'.arg[1]
                v == last'.arg[2]
                offset == Len(ExtTable(tib))
            IN /\ tib'.ext.some
               /\ tib'.ext.strtab = ExtTable(tib) \o v \o <<0>>
               /\ (last'.ret = Err("MaxStrTabSizeReached")) <=> (offset >= 65534)
               /\ offset < 65534 =>
                    /\ last'.ret = Ok(Unit)
                    /\ ext_index(tib', n).some
                    /\ ExtStringSlot(tib', n) \in 1..Len(tib'.ext.strings)
                    /\ tib'.ext.strings[ExtStringSlot(tib', n)] = offset
      ]_vars

\* the number of extended capabilities of a kind, 0 before the first
\* set_ext_*
ExtLen(b, kind) == IF b.ext.some THEN Len(b.ext[kind]) ELSE 0
ExtNameCount(b) == ExtLen(b, "names")

\* the name array is the old one with one offset inserted at position k
NameInsertedAt(b, c, k) ==
    /\ c.ext.some
    /\ Len(c.ext.names) = ExtNameCount(b) + 1
    /\ k \in 0..ExtNameCount(b)
    /\ \A j \in 1..ExtNameCount(b) :
            b.ext.names[j] = c.ext.names[IF j <= k THEN j ELSE j + 1]
    /\ ext_index(c, last'.arg[1]) = Some(k)

\* an existing name is reused: no array changes its length
Reused(b, c) ==
    /\ c.ext.some
    /\ \A kind \in {"bools", "numbers", "strings", "names"} :
            Len(c.ext[kind]) = ExtLen(b, kind)
    /\ ext_index(c, last'.arg[1]) = ext_index(b, last'.arg[1])

\* a new name is appended to the array of its kind and entered in the name
\* array at the end of the part of that kind
Appended(b, c, kind, k) ==
    /\ c.ext.some
    /\ \A other \in {"bools", "numbers", "strings"} :
            Len(c.ext[other]) = ExtLen(b, other) + (IF other = kind THEN 1 ELSE 0)
    /\ NameInsertedAt(b, c, k)

SetExtEffect(kind, k) ==
    IF ext_index(tib, last'.arg[1]).some
    THEN Reused(tib, tib')
    ELSE Appended(tib, tib', kind, k)

\* C9: set_ext_boolean(n, v), set_ext_number(n, v) and set_ext_string(n, v)
\* complete, and are followed by ext_boolean(n) = v, ext_number(n) = v,
\* ext_string(n) = v; an existing name is reused where ext_index finds it,
\* a new name is appended to the array of its kind and becomes findable at
\* the matching position of the name array.
C9_SetExtThenGet ==
    [][ /\ last'.op = "set_ext_boolean" =>
            /\ last'.ret # Panic
            /\ last'.ret = Ok(Unit) =>
                /\ ext_boolean(tib', last'.arg[1]) = last'.arg[2]
                /\ SetExtEffect("bools", ExtLen(tib, "bools"))
        /\ last'.op = "set_ext_number" =>
            /\ last'.ret # Panic
            /\ last'.ret = Ok(Unit) =>
                /\ ext_number(tib', last'.arg[1]) = Some(last'.arg[2])
                /\ SetExtEffect("numbers",
                        ExtLen(tib, "bools") + ExtLen(tib, "numbers"))
        /\ last'.op = "set_ext_string" =>
            /\ last'.ret # Panic
            /\ last'.ret = Ok(Unit) =>
                /\ ext_string(tib', last'.arg[1]) = Some(last'.arg[2])
                /\ SetExtEffect("strings", ExtNameCount(tib))
      ]_vars

----------------------------------------------------------------------------
(* The capability language: bytes, arguments and printf                    *)
(* (src/terminfo/src/lang, src/src/terminfo/lang/argument.rs)              *)

\* the printable ASCII characters, 32 (space) to 126 (~); the grave accent
\* (96) is not used in any literal
Ascii ==
    << " ", "!", "\"", "#", "$", "%", "&", "'", "(", ")", "*", "+", ",", "-",
       ".", "/", "0", "1", "2", "3", "4", "5", "6", "7", "8", "9", ":", ";",
       "<", "=", ">", "?", "@", "A", "B", "C", "D", "E", "F", "G", "H", "I",
       "J", "K", "L", "M", "N", "O", "P", "Q", "R", "S", "T", "U", "V", "W",
       "X", "Y", "Z", "[", "\\", "]", "^", "_", "(grave)", "a", "b", "c", "d", "e",
       "f", "g", "h", "i", "j", "k", "l", "m", "n", "o", "p", "q", "r", "s",
       "t", "u", "v", "w", "x", "y", "z", "{", "|", "}", "~" >>

\* b'c'
Ord(c) == 31 + CHOOSE i \in 1..Len(Ascii) : Ascii[i] = c

\* b"...": the bytes of a literal written as a tuple of characters
Str(cs) == [i \in 1..Len(cs) |-> Ord(cs[i])]

\* &s[n..] and &s[..n]
From(sl, n) == SubSeq(sl, n + 1, Len(sl))
Upto(sl, n) == SubSeq(sl, 1, n)

\* iter().take_while(pred).count()
RECURSIVE count_while(_, _)
count_while(sl, S) ==
    IF sl # <<>> /\ Head(sl) \in S THEN 1 + count_while(Tail(sl), S) ELSE 0

Digit == Ord("0")..Ord("9")
Conversions == {Ord("x"), Ord("X"), Ord("c"), Ord("d"), Ord("o"), Ord("s")}

\* enum Argument; each variant names its payload after itself
Integer(x) == [type |-> "integer", int |-> x]
String(str) == [type |-> "string", str |-> str]
Char(c) == [type |-> "char", chr |-> c]
\* From<bool> for Argument
FromBool(b) == Integer(IF b THEN 1 ELSE 0)

\* PrintfArgs::default()
PrintfArgs_default ==
    [left_align |-> FALSE, show_sign |-> FALSE, pad_sign |-> FALSE,
     alt |-> FALSE, width |-> None, prec |-> None, character |-> 0]

\* parse_usize: try_fold((0, 1), |(num, pow), c| (num + digit * pow, pow * 10))
RECURSIVE parse_usize_fold(_, _, _)
parse_usize_fold(sl, num, pow) ==
    IF sl = <<>> THEN num
    ELSE parse_usize_fold(Tail(sl), num + (Head(sl) - Ord("0")) * pow, pow * 10)

parse_usize(sl) == parse_usize_fold(sl, 0, 1)

\* PrintfArgs::parse_specifier
parse_specifier(spec, src) ==
    IF src # <<>> /\ src[1] \in Conversions
    THEN Ok([spec EXCEPT !.character = src[1]])
    ELSE Err("BadPrintfSpecifier")

\* PrintfArgs::parse_width
parse_width(spec, src) ==
    LET width_width == count_while(src, Digit)
        s1 == IF width_width > 0
              THEN [spec EXCEPT !.width = Some(parse_usize(Upto(src, width_width)))]
              ELSE spec
    IN IF Len(src) > width_width /\ src[width_width + 1] = Ord(".")
       THEN LET prec_width == count_while(From(src, width_width + 1), Digit)
            IN IF prec_width > 0
               THEN parse_specifier(
                        [s1 EXCEPT !.prec = Some(parse_usize(
                            SubSeq(src, width_width + 2, width_width + 1 + prec_width)))],
                        From(src, prec_width + 1 + width_width))
               ELSE Err("BadPrecisionSpecified")
       ELSE parse_specifier(s1, From(src, width_width))

Flags == {Ord("+"), Ord("-"), Ord("#"), Ord(" ")}

\* PrintfArgs::parse_flags
parse_flags(spec, src) ==
    LET flags == count_while(src, Flags)
        seen == { src[i] : i \in 1..flags }
    IN parse_width([spec EXCEPT !.show_sign = Ord("+") \in seen,
                                !.left_align = Ord("-") \in seen,
                                !.alt = Ord("#") \in seen,
                                !.pad_sign = Ord(" ") \in seen],
                   From(src, flags))

\* PrintfArgs::parse
PrintfArgs_parse(src) ==
    IF Len(src) < 1 THEN Err("BadPrintfSpecifier")
    ELSE IF src[1] = Ord(":") THEN parse_flags(PrintfArgs_default, From(src, 1))
    ELSE IF src[1] \in Digit \cup {Ord(".")} THEN parse_width(PrintfArgs_default, src)
    ELSE parse_specifier(PrintfArgs_default, src)

\* ErrorKind::UnexpectedArgumentType(expected, got)
UnexpectedArgumentType(expected, got) ==
    Err(<<"UnexpectedArgumentType", expected, got>>)

Spaces(n) == [i \in 1..n |-> Ord(" ")]

\* PrintfArgs::pad: the bytes written for buf
pad(spec, buf) ==
    LET fill == IF spec.width.some /\ Len(buf) < spec.width.val
                THEN Spaces(spec.width.val - Len(buf)) ELSE <<>>
    IN IF spec.left_align THEN buf \o fill ELSE fill \o buf

NUM_CHARS == Str(<<"0", "1", "2", "3", "4", "5", "6", "7", "8", "9",
                   "a", "b", "c", "d", "e", "f">>)
UPPERCASE_NUM_CHARS == Str(<<"0", "1", "2", "3", "4", "5", "6", "7", "8", "9",
                             "A", "B", "C", "D", "E", "F">>)

\* the loop `while wnum > 0` of write_number and the reverse() after it:
\* the digits of wnum, most significant first; none for wnum = 0
RECURSIVE number_digits(_, _, _)
number_digits(wnum, radix, chars) ==
    IF wnum > 0
    THEN Append(number_digits(wnum \div radix, radix, chars), chars[(wnum % radix) + 1])
    ELSE <<>>

\* size of num_buf
NUM_BUF_SIZE == 22

\* PrintfArgs::write_number
write_number(spec, num) ==
    LET c == spec.character
        radix == IF c \in {Ord("x"), Ord("X")} THEN 16
                 ELSE IF c = Ord("o") THEN 8 ELSE 10
        uppercase == c = Ord("X")
        wnum == IF num < 0 THEN -num ELSE num
        sign == IF num < 0 THEN Str(<<"-">>)
                ELSE IF spec.pad_sign THEN Str(<<" ">>)
                ELSE IF spec.show_sign THEN Str(<<"+">>)
                ELSE <<>>
        alt == IF ~spec.alt THEN <<>>
               ELSE IF radix = 8 THEN Str(<<"0">>)
               ELSE IF uppercase /\ radix = 16 THEN Str(<<"0", "X">>)
               ELSE IF radix = 16 THEN Str(<<"0", "x">>)
               ELSE <<>>
        prefix == sign \o alt
        digits == number_digits(wnum, radix,
                        IF uppercase THEN UPPERCASE_NUM_CHARS ELSE NUM_CHARS)
        kept == IF spec.prec.some /\ Len(digits) > spec.prec.val
                THEN Upto(digits, spec.prec.val) ELSE digits
    IN IF c = Ord("s") THEN UnexpectedArgumentType("string", "integer")
       ELSE IF c = Ord("c") THEN UnexpectedArgumentType("char", "integer")
       ELSE IF c \notin {Ord("x"), Ord("X"), Ord("o"), Ord("d")}
       THEN UnexpectedArgumentType("", "integer")
       ELSE IF Len(prefix) + Len(digits) > NUM_BUF_SIZE THEN Panic
       ELSE Ok(pad(spec, prefix \o kept))

\* PrintfArgs::write_string
write_string(spec, str) ==
    LET c == spec.character
        slen == IF spec.prec.some /\ Len(str) > spec.prec.val
                THEN spec.prec.val ELSE Len(str)
    IN IF c \in {Ord("x"), Ord("X"), Ord("o"), Ord("d")}
       THEN UnexpectedArgumentType("integer", "string")
       ELSE IF c = Ord("c") THEN UnexpectedArgumentType("char", "string")
       ELSE Ok(pad(spec, Upto(str, slen)))

\* PrintfArgs::write_char
write_char(spec, c) ==
    IF spec.character \in {Ord("x"), Ord("X"), Ord("o"), Ord("d")}
    THEN UnexpectedArgumentType("integer", "char")
    ELSE IF spec.character = Ord("s")
    THEN UnexpectedArgumentType("integer", "string")
    ELSE Ok(pad(spec, <<c>>))

NULL == Str(<<"(", "n", "u", "l", "l", ")">>)

\* PrintfArgs::print: Ok(the bytes written) or the error
PrintfArgs_print(spec, arg) ==
    IF ~arg.some THEN Ok(NULL)
    ELSE IF arg.val.type = "integer" THEN write_number(spec, arg.val.int)
    ELSE IF arg.val.type = "string" THEN write_string(spec, arg.val.str)
    ELSE write_char(spec, arg.val.chr)

----------------------------------------------------------------------------
(* The parser of capability strings (src/terminfo/src/lang/parser.rs)      *)

\* enum Op
Op(name) == [op |-> name]
OpN(name, n) == [op |-> name, n |-> n]
OpPrint(spec) == [op |-> "Print", spec |-> spec]
OpPrintSlice(sl) == [op |-> "PrintSlice", slice |-> sl]

\* Parser::new
Parser_new(src) == [slice |-> src, buffer |-> <<>>]

\* the result of a parser method and the parser it leaves behind
POk(p) == [kind |-> "Ok", p |-> p]
PErr(e) == [kind |-> "Err", err |-> e]

\* Parser::add_instruction
add_instruction(p, op) == [p EXCEPT !.buffer = Append(p.buffer, op)]

\* the directives of one byte after the `%`
SimpleOps ==
    [c \in {Ord("i"), Ord("l"), Ord("+"), Ord("-"), Ord("*"), Ord("/"), Ord("m"),
            Ord("&"), Ord("^"), Ord("|"), Ord("="), Ord("<"), Ord(">"), Ord("~"),
            Ord("!")} |->
        CASE c = Ord("i") -> "IncrementArgs"
          [] c = Ord("l") -> "StrLen"
          [] c = Ord("+") -> "Add"
          [] c = Ord("-") -> "Sub"
          [] c = Ord("*") -> "Mul"
          [] c = Ord("/") -> "Div"
          [] c = Ord("m") -> "Mod"
          [] c = Ord("&") -> "BitAnd"
          [] c = Ord("^") -> "BitXor"
          [] c = Ord("|") -> "BitOr"
          [] c = Ord("=") -> "Equal"
          [] c = Ord("<") -> "Less"
          [] c = Ord(">") -> "Greater"
          [] c = Ord("~") -> "Invert"
          [] c = Ord("!") -> "Not"]

Skip2(p) == [p EXCEPT !.slice = From(p.slice, 2)]

RECURSIVE next_instruction(_), parse_until(_, _)

\* the loop of parse_until after `self.next_instruction()?` has returned r
parse_until_loop(r, stop) ==
    IF r.kind # "Ok" THEN r
    ELSE IF Len(r.p.slice) < 2 THEN PErr("UnexpectedEof")
    ELSE parse_until(r.p, stop)

\* Parser::parse_until: Ok with the slice at a `%` followed by a byte of
\* stop, UnexpectedEof when fewer than 2 bytes remain, a panic when
\* slice[0] or slice[1] is read past the end before the loop
parse_until(p, stop) ==
    IF Len(p.slice) = 0 THEN Panic
    ELSE IF p.slice[1] = Ord("%") /\ Len(p.slice) = 1 THEN Panic
    ELSE IF Len(p.slice) < 2 THEN PErr("UnexpectedEof")
    ELSE IF p.slice[1] = Ord("%") /\ p.slice[2] \in stop THEN POk(p)
    ELSE parse_until_loop(next_instruction(p), stop)

\* self.buffer[idx] = op; self.slice = &self.slice[2..]
patch(p, idx, op) ==
    [p EXCEPT !.buffer[idx + 1] = op, !.slice = From(p.slice, 2)]

\* the `%?` arm after the else arm was parsed with result r3: the
\* placeholder at jump_idx becomes Jump(self.buffer.len() - jump_idx)
conditional_end(r3, jump_idx) ==
    IF r3.kind # "Ok" THEN r3
    ELSE POk(patch(r3.p, jump_idx, OpN("Jump", Len(r3.p.buffer) - jump_idx)))

\* the `%?` arm at `%e`, p3 holding the placeholder of the Jump at jump_idx
conditional_else(p3, branch_idx, jump_idx) ==
    conditional_end(
        parse_until(patch(p3, branch_idx,
                        OpN("BranchFalse", Len(p3.buffer) - 1 - branch_idx)),
                    {Ord(";")}),
        jump_idx)

\* the `%?` arm after the then arm was parsed with result r2
conditional_arm(r2, branch_idx) ==
    IF r2.kind # "Ok" THEN r2
    ELSE IF r2.p.slice[2] = Ord("e")
    THEN conditional_else(add_instruction(r2.p, Op("NoOp")), branch_idx,
                          Len(r2.p.buffer))
    ELSE POk(patch(r2.p, branch_idx,
                OpN("BranchFalse", Len(r2.p.buffer) - 1 - branch_idx)))

\* the `%?` arm after the condition was parsed with result r1: the
\* placeholder of the branch goes to branch_idx = self.buffer.len()
conditional_then(r1) ==
    IF r1.kind # "Ok" THEN r1
    ELSE conditional_arm(
            parse_until(add_instruction(Skip2(r1.p), Op("NoOp")),
                        {Ord("e"), Ord(";")}),
            Len(r1.p.buffer))

\* the `%?` arm of next_instruction; p.slice starts after the `%?`
conditional(p) == conditional_then(parse_until(p, {Ord("t")}))

\* the `_` arm of next_instruction, spec being PrintfArgs::parse(&slice[1..])
print_arm(p, spec) ==
    IF spec.kind # "Ok" THEN spec
    ELSE POk([add_instruction(p, OpPrint(spec.val)) EXCEPT
                !.slice = From(p.slice,
                    2 + count_while(From(p.slice, 1), Byte \ Conversions))])

\* the arm of next_instruction for a slice that does not start with `%`
text_arm(p, pos) ==
    POk([add_instruction(p, OpPrintSlice(Upto(p.slice, pos)))
            EXCEPT !.slice = From(p.slice, pos)])

\* Parser::next_instruction
next_instruction(p) ==
    IF Len(p.slice) = 0 THEN POk(p)
    ELSE IF p.slice[1] # Ord("%")
    THEN text_arm(p, count_while(p.slice, Byte \ {Ord("%")}))
    ELSE IF Len(p.slice) = 1 THEN PErr("UnexpectedEof")
    ELSE IF p.slice[2] = Ord("%")
    THEN POk(Skip2(add_instruction(p, OpPrintSlice(<<37>>))))
    ELSE IF p.slice[2] = Ord("p")
    THEN IF Len(p.slice) >= 3 /\ p.slice[3] \in Ord("1")..Ord("9")
         THEN POk([add_instruction(p, OpN("Push", p.slice[3] - Ord("1")))
                    EXCEPT !.slice = From(p.slice, 3)])
         ELSE PErr("InvalidArgumentIdentifier")
    ELSE IF p.slice[2] \in DOMAIN SimpleOps
    THEN POk(Skip2(add_instruction(p, Op(SimpleOps[p.slice[2]]))))
    ELSE IF p.slice[2] = Ord("?")
    THEN conditional(Skip2(p))
    ELSE print_arm(p, PrintfArgs_parse(From(p.slice, 1)))

\* self.buffer.pop_front() as an item of the iterator
pop_front(p) ==
    [kind |-> "Ok", some |-> TRUE, op |-> Head(p.buffer),
     p |-> [p EXCEPT !.buffer = Tail(p.buffer)]]

\* Iterator::next after `self.next_instruction()` has returned r
next_parsed(r) ==
    IF r.kind # "Ok" THEN r
    ELSE IF r.p.buffer # <<>> THEN pop_front(r.p)
    ELSE [kind |-> "Ok", some |-> FALSE, p |-> r.p]

\* Iterator::next for Parser: Some(Ok(op)) as [kind "Ok", some, op, p],
\* None as [kind "Ok", some = FALSE], Some(Err(e)) as the error
Parser_next(p) ==
    IF p.buffer # <<>> THEN pop_front(p) ELSE next_parsed(next_instruction(p))

----------------------------------------------------------------------------
(* The executor (src/terminfo/src/lang/executor.rs)                        *)

\* ExecutionEnvironment::new: an empty stack (its top is the last element)
\* and nine unset parameters
ExecutionEnvironment_new ==
    [stack |-> <<>>, arguments |-> [i \in 1..9 |-> None]]

\* Executor::new
Executor_new(src) ==
    [src |-> src, env |-> ExecutionEnvironment_new, argc |-> 0]

\* Executor::argi
Executor_argi(e, i, a) ==
    IF i < 9 THEN [e EXCEPT !.env.arguments[i + 1] = Some(a)] ELSE e

\* Executor::arg
Executor_arg(e, a) ==
    IF e.argc < 9
    THEN [e EXCEPT !.env.arguments[e.argc + 1] = Some(a), !.argc = e.argc + 1]
    ELSE e

\* the result of a method of the environment and the environment after it
EOk(v, env) == [kind |-> "Ok", val |-> v, env |-> env]
EErr(r, env) == [kind |-> r.kind, err |-> r.err, env |-> env]

\* ExecutionEnvironment::pop
pop(env) ==
    IF env.stack = <<>> THEN [val |-> None, env |-> env]
    ELSE [val |-> Some(env.stack[Len(env.stack)]),
          env |-> [env EXCEPT !.stack = Upto(env.stack, Len(env.stack) - 1)]]

\* ExecutionEnvironment::push
push(env, a) == [env EXCEPT !.stack = Append(env.stack, a)]

\* ExecutionEnvironment::pop_integer
pop_integer(env) ==
    LET r == pop(env)
    IN IF ~r.val.some THEN EErr(UnexpectedArgumentType("string", "null"), r.env)
       ELSE IF r.val.val.type = "integer" THEN EOk(r.val.val.int, r.env)
       ELSE EErr(UnexpectedArgumentType("integer", r.val.val.type), r.env)

\* ExecutionEnvironment::pop_string
pop_string(env) ==
    LET r == pop(env)
    IN IF ~r.val.some THEN EErr(UnexpectedArgumentType("string", "null"), r.env)
       ELSE IF r.val.val.type = "string" THEN EOk(r.val.val.str, r.env)
       ELSE EErr(UnexpectedArgumentType("string", r.val.val.type), r.env)

\* ExecutionEnvironment::pop_bool
pop_bool(env) ==
    LET r == pop(env)
    IN [val |-> IF ~r.val.some THEN FALSE
                ELSE IF r.val.val.type = "string" THEN r.val.val.str # <<>>
                ELSE IF r.val.val.type = "char" THEN r.val.val.chr # 0
                ELSE r.val.val.int # 0,
        env |-> r.env]

\* i64 `/` and `%`: the quotient is truncated towards zero
Abs(x) == IF x < 0 THEN -x ELSE x
TruncDiv(x, y) ==
    IF (x < 0) = (y < 0) THEN Abs(x) \div Abs(y) ELSE -(Abs(x) \div Abs(y))
TruncRem(x, y) == x - y * TruncDiv(x, y)

\* i64 `&`, `|`, `^` on two's complement numbers, bit by bit
RECURSIVE Bitwise(_, _, _)
Bitwise(f, x, y) ==
    IF x \in {0, -1} /\ y \in {0, -1}
    THEN IF f[x % 2][y % 2] = 1 THEN -1 ELSE 0
    ELSE 2 * Bitwise(f, x \div 2, y \div 2) + f[x % 2][y % 2]

AndBits == [a \in 0..1 |-> [b \in 0..1 |-> IF a = 1 /\ b = 1 THEN 1 ELSE 0]]
OrBits == [a \in 0..1 |-> [b \in 0..1 |-> IF a = 1 \/ b = 1 THEN 1 ELSE 0]]
XorBits == [a \in 0..1 |-> [b \in 0..1 |-> IF a # b THEN 1 ELSE 0]]

\* the closure handed to map_integer2 for each binary opcode
BinaryOps ==
    {"Add", "Sub", "Div", "Mul", "Mod", "BitAnd", "BitOr", "BitXor",
     "Equal", "Greater", "Less"}

Closure2(name, x, y) ==
    CASE name = "Add" -> Integer(x + y)
      [] name = "Sub" -> Integer(x - y)
      [] name = "Div" -> Integer(TruncDiv(x, y))
      [] name = "Mul" -> Integer(x * y)
      [] name = "Mod" -> Integer(TruncRem(x, y))
      [] name = "BitAnd" -> Integer(Bitwise(AndBits, x, y))
      [] name = "BitOr" -> Integer(Bitwise(OrBits, x, y))
      [] name = "BitXor" -> Integer(Bitwise(XorBits, x, y))
      [] name = "Equal" -> FromBool(x = y)
      [] name = "Greater" -> FromBool(x > y)
      [] name = "Less" -> FromBool(x < y)

\* ExecutionEnvironment::map_integer2: x is popped first, then y, and
\* f(x, y) is pushed; a division by zero panics
map_integer2(env, name) ==
    LET x == pop_integer(env) IN
    IF x.kind # "Ok" THEN x ELSE
    LET y == pop_integer(x.env) IN
    IF y.kind # "Ok" THEN y
    ELSE IF name \in {"Div", "Mod"} /\ y.val = 0 THEN [kind |-> "Panic", env |-> y.env]
    ELSE EOk(Unit, push(y.env, Closure2(name, x.val, y.val)))

\* the closures handed to map_integer: |x| !x for Invert and
\* |x| if x != 0 { x == 0 } else { x == 1 } for Not
Closure1(name, x) ==
    IF name = "Invert" THEN Integer(-x - 1)
    ELSE FromBool(IF x # 0 THEN x = 0 ELSE x = 1)

\* ExecutionEnvironment::map_integer
map_integer(env, name) ==
    LET x == pop_integer(env) IN
    IF x.kind # "Ok" THEN x
    ELSE EOk(Unit, push(x.env, Closure1(name, x.val)))

\* the arm Op::IncrementArgs of write
increment_args(env) ==
    [env EXCEPT !.arguments =
        [i \in 1..9 |->
            IF i <= 2 /\ @[i].some /\ @[i].val.type = "integer"
            THEN Some(Integer(@[i].val.int + 1)) ELSE @[i]]]

RECURSIVE skip(_, _)

\* one turn of the loop after `parser.next()` has returned r
skip_one(r, ip) ==
    IF r.kind # "Ok" THEN r
    ELSE IF ~r.some THEN [kind |-> "End", p |-> r.p]
    ELSE skip(r.p, ip - 1)

\* the loops `for _ in 0..ip` of Jump, BranchFalse and BranchTrue: "Ok" when
\* ip instructions were dropped, "End" for `break 'exe`, else the error
skip(p, ip) ==
    IF ip = 0 THEN [kind |-> "Ok", p |-> p] ELSE skip_one(Parser_next(p), ip)

\* what ExecutionEnvironment::write returns, the environment and the bytes
\* of the writer it leaves
Written(ret, env, w) == [ret |-> ret, env |-> env, w |-> w]

RECURSIVE ExecutionEnvironment_write(_, _, _)

\* the end of a branching arm, s being the result of its loop
branched(s, env, w) ==
    IF s.kind = "Panic" THEN Written(Panic, env, w)
    ELSE IF s.kind = "Err" THEN Written(Err(s.err), env, w)
    ELSE IF s.kind = "End" THEN Written(Ok(Unit), env, w)
    ELSE ExecutionEnvironment_write(env, s.p, w)

\* the arms BranchFalse and BranchTrue, b being the result of pop_bool
branch(b, jump_if, ip, parser, w) ==
    IF b.val = jump_if THEN branched(skip(parser, ip), b.env, w)
    ELSE ExecutionEnvironment_write(b.env, parser, w)

\* the arms `self.method()?`, r being the result of the method
try(r, parser, w) ==
    IF r.kind = "Panic" THEN Written(Panic, r.env, w)
    ELSE IF r.kind = "Err" THEN Written(Err(r.err), r.env, w)
    ELSE ExecutionEnvironment_write(r.env, parser, w)

\* the arm StrLen after pop_string has returned x
strlen_arm(x) ==
    IF x.kind # "Ok" THEN x ELSE EOk(Unit, push(x.env, Integer(Len(x.val))))

\* the arm Print after `p.print(w, ..)` has returned r
printed(r, env, parser, w) ==
    IF r.kind = "Ok" THEN ExecutionEnvironment_write(env, parser, w \o r.val)
    ELSE Written(r, env, w)

\* the arm Print, a being the result of self.pop()
print_popped(spec, a, parser, w) ==
    printed(PrintfArgs_print(spec, a.val), a.env, parser, w)

\* `match op` of ExecutionEnvironment::write
execute(op, env, parser, w) ==
    CASE op.op = "NoOp" -> ExecutionEnvironment_write(env, parser, w)
      [] op.op = "Push" ->
            ExecutionEnvironment_write(
                push(env, IF env.arguments[op.n + 1].some
                          THEN env.arguments[op.n + 1].val ELSE Integer(0)),
                parser, w)
      [] op.op = "Jump" -> branched(skip(parser, op.n), env, w)
      [] op.op = "BranchFalse" -> branch(pop_bool(env), FALSE, op.n, parser, w)
      [] op.op = "BranchTrue" -> branch(pop_bool(env), TRUE, op.n, parser, w)
      [] op.op \in BinaryOps -> try(map_integer2(env, op.op), parser, w)
      [] op.op \in {"Invert", "Not"} -> try(map_integer(env, op.op), parser, w)
      [] op.op = "IncrementArgs" ->
            ExecutionEnvironment_write(increment_args(env), parser, w)
      [] op.op = "StrLen" -> try(strlen_arm(pop_string(env)), parser, w)
      [] op.op = "Print" -> print_popped(op.spec, pop(env), parser, w)
      [] op.op = "PrintSlice" ->
            ExecutionEnvironment_write(env, parser, w \o op.slice)

\* one turn of `'exe: loop` after `parser.next()` has returned n
fetched(n, env, w) ==
    IF n.kind = "Panic" THEN Written(Panic, env, w)
    ELSE IF n.kind = "Err" THEN Written(Err(n.err), env, w)
    ELSE IF ~n.some THEN Written(Ok(Unit), env, w)
    ELSE execute(n.op, env, n.p, w)

\* ExecutionEnvironment::write
ExecutionEnvironment_write(env, parser, w) ==
    fetched(Parser_next(parser), env, w)

\* Executor::write after the environment has run with result r
written_back(e, r) == [ret |-> r.ret, exe |-> [e EXCEPT !.env = r.env], w |-> r.w]

\* Executor::write: the program is parsed again from self.src and run on
\* the environment the executor holds
Executor_write(e, w) ==
    written_back(e, ExecutionEnvironment_write(e.env, Parser_new(e.src), w))

----------------------------------------------------------------------------
(* Running capability strings: Executor::new(src).arg(..).write(&mut w)    *)

\* the arguments handed to an executor
IntArgs == {Integer(-7), Integer(-1), Integer(0), Integer(3), Integer(20)}
ArgValues == IntArgs \cup {String(Str(<<"a", "b">>)), Char(Ord("c"))}
\* the slots and the value set with argi
ArgiSlots == {2, 8}
ArgiValues == {Integer(5)}

\* at most MaxArgs calls of arg and MaxWrites calls of write on an executor
MaxArgs == 2
MaxWrites == 2

\* `%?C%tA%eB%;R`
IfThenElse(C, A, B, R) ==
    Str(<<"%", "?">>) \o C \o Str(<<"%", "t">>) \o A \o Str(<<"%", "e">>) \o B
        \o Str(<<"%", ";">>) \o R
\* `%?C%tA%;R`
IfThen(C, A, R) ==
    Str(<<"%", "?">>) \o C \o Str(<<"%", "t">>) \o A \o Str(<<"%", ";">>) \o R

\* conditions and instruction sequences the conditionals are built from
Conds == {Str(<<"%", "p", "1">>)}
Arms == {<<>>, Str(<<"A">>), Str(<<"%", "p", "2", "%", "s">>)}
Rests == {<<>>, Str(<<"R">>), Str(<<"%", "p", "2", "%", "s", "m">>)}
CondPrograms ==
    { IfThenElse(C, A, B, R) : C \in Conds, A \in Arms, B \in Arms \ {<<>>}, R \in Rests }
        \cup { IfThen(C, A, R) : C \in Conds, A \in Arms \ {<<>>}, R \in Rests }

\* "%{8}%{22}%+%d%'c'%c" and its two halves (tests::simple)
LiteralSum ==
    Str(<<"%", "{", "8", "}", "%", "{", "2", "2", "}", "%", "+", "%", "d",
          "%", "'", "c", "'", "%", "c">>)
LiteralInt == Str(<<"%", "{", "8", "}", "%", "d">>)
LiteralChar == Str(<<"%", "'", "c", "'", "%", "c">>)

\* "\x1b[%?%p1%{8}%<%t3%p1%d%e%p1%{16}%<%t9%p1%{8}%-%d%e38;5;%p1%d%;m"
ElseIfChain ==
    <<27>> \o Str(<<"[", "%", "?", "%", "p", "1", "%", "{", "8", "}", "%", "<",
          "%", "t", "3", "%", "p", "1", "%", "d",
          "%", "e", "%", "p", "1", "%", "{", "1", "6", "}", "%", "<",
          "%", "t", "9", "%", "p", "1", "%", "{", "8", "}", "%", "-", "%", "d",
          "%", "e", "3", "8", ";", "5", ";", "%", "p", "1", "%", "d",
          "%", ";", "m">>)
\* a conditional in the else arm that needs no literal: "%?%p1%tA%e%p2%tB%eC%;"
PlainElseIf ==
    Str(<<"%", "?", "%", "p", "1", "%", "t", "A", "%", "e", "%", "p", "2",
          "%", "t", "B", "%", "e", "C", "%", ";">>)

\* `%p1%p2%<op>`: the result stays on the stack
BinaryBytes ==
    {Ord("+"), Ord("-"), Ord("*"), Ord("/"), Ord("m"), Ord("&"), Ord("|"),
     Ord("^"), Ord("<"), Ord(">"), Ord("=")}
Binary(c) == Str(<<"%", "p", "1", "%", "p", "2", "%">>) \o <<c>>
\* `%p1%<op>`
UnaryBytes == {Ord("!"), Ord("~")}
Unary(c) == Str(<<"%", "p", "1", "%">>) \o <<c>>

\* "%i%p1%d.%p2%d" (tests::simple) and "%p3%p1%i"
IncrementPrint ==
    Str(<<"%", "i", "%", "p", "1", "%", "d", ".", "%", "p", "2", "%", "d">>)
IncrementOnly == Str(<<"%", "p", "3", "%", "p", "1", "%", "i">>)

\* "%p1%5d|%p2%s" and "%p1%l%d"
PaddedPrint ==
    Str(<<"%", "p", "1", "%", "5", "d", "|", "%", "p", "2", "%", "s">>)
StrLenPrint == Str(<<"%", "p", "1", "%", "l", "%", "d">>)

\* "%p1%d;%p2%dH", the parameters of a cursor address
CursorAddress ==
    Str(<<"%", "p", "1", "%", "d", ";", "%", "p", "2", "%", "d", "H">>)

\* `%p1%<c>` for the integer conversions d, o, x and X
IntegerConversions == {Ord("d"), Ord("o"), Ord("x"), Ord("X")}
PrintInteger(c) == Str(<<"%", "p", "1", "%">>) \o <<c>>

Programs ==
    CondPrograms
        \cup {LiteralSum, LiteralInt, LiteralChar, ElseIfChain, PlainElseIf}
        \cup { Binary(c) : c \in BinaryBytes } \cup { Unary(c) : c \in UnaryBytes }
        \cup {IncrementPrint, IncrementOnly, PaddedPrint, StrLenPrint}
        \cup {CursorAddress} \cup { PrintInteger(c) : c \in IntegerConversions }

InitLang ==
    /\ bytes = <<>>
    /\ base = 0
    /\ parsed = NotParsed
    /\ tib = NoBuf
    /\ last = NoCall
    /\ LangIdle

\* no write has been called on the executor yet
Building == exe # NoExe /\ last.op \in {"new", "arg", "argi"}

\* let mut e = Executor::new(src); let mut w = Vec::new()
LangNewIn(Progs) ==
    /\ exe = NoExe
    /\ \E src \in Progs :
        /\ exe' = Executor_new(src)
        /\ last' = [op |-> "new", src |-> src]
    /\ out' = <<>>
    /\ UNCHANGED <<bytes, base, parsed, tib>>

\* e = e.arg(v), called while fewer than n values were appended
LangArgIn(Values, n) ==
    /\ Building
    /\ exe.argc < n
    /\ \E v \in Values :
        /\ exe' = Executor_arg(exe, v)
        /\ last' = [op |-> "arg", v |-> v, pre |-> exe]
    /\ UNCHANGED <<bytes, base, parsed, tib, out>>

\* e = e.argi(i, v)
LangArgiIn(Slots, Values) ==
    /\ Building
    /\ \E i \in Slots, v \in Values :
        /\ exe' = Executor_argi(exe, i, v)
        /\ last' = [op |-> "argi", i |-> i, v |-> v, pre |-> exe]
    /\ UNCHANGED <<bytes, base, parsed, tib, out>>

\* the writes called on the executor so far
Writes == IF last.op = "write" THEN last.nth ELSE 0

\* the state after e.write(&mut w) has returned r
LangWritten(r) ==
    /\ exe' = r.exe
    /\ out' = r.w
    /\ last' = [op |-> "write", ret |-> r.ret, pre |-> exe, w0 |-> out,
                nth |-> Writes + 1]

\* e.write(&mut w), on an executor no write of which has panicked
LangWrite ==
    /\ exe # NoExe
    /\ Writes < MaxWrites
    /\ last.op = "write" => last.ret.kind # "Panic"
    /\ LangWritten(Executor_write(exe, out))
    /\ UNCHANGED <<bytes, base, parsed, tib>>

LangNew == LangNewIn(Programs)
LangArg == LangArgIn(ArgValues, MaxArgs)
LangArgi == LangArgiIn(ArgiSlots, ArgiValues)

NextLang == LangNew \/ LangArg \/ LangArgi \/ LangWrite

SpecLang == InitLang /\ [][NextLang]_vars

----------------------------------------------------------------------------
(* Properties of the capability language                                   *)

\* an instruction sequence run on its own on an environment and a writer
Fragment(env, src, w) == ExecutionEnvironment_write(env, Parser_new(src), w)

\* the first write of an executor built for src has returned
FirstWriteOf(src) == last.op = "write" /\ last.nth = 1 /\ last.pre.src = src

\* C has run with result c and left the value b: A or B runs, then R
CondRest(c, a, R) ==
    [ok |-> c.ret.kind = "Ok" /\ a.ret.kind = "Ok", r |-> Fragment(a.env, R, a.w)]
CondArm(c, b, A, B, R) ==
    [taken |-> b.val,
     x |-> CondRest(c, Fragment(b.env, IF b.val THEN A ELSE B, c.w), R)]
CondValue(c, A, B, R) == CondArm(c, pop_bool(c.env), A, B, R)
Flat(y) ==
    [ok |-> y.x.ok /\ y.x.r.ret.kind = "Ok", taken |-> y.taken, w |-> y.x.r.w]

\* what `%?C%tA%eB%;R` is to do on env: C, then A or B as the value C left
\* says, then R
CondThenRest(env, C, A, B, R) ==
    Flat(CondValue(Fragment(env, C, <<>>), A, B, R))

\* the claim of C11 about a result x expected of the conditional
AsExpected(x) == x.ok => last.ret.kind = "Ok" /\ out = x.w

\* C11: executing `%?C%tA%eB%;R` writes the output of A and then of R when
\* C leaves a true value, and the output of B and then of R when it leaves
\* a false one: the instructions after `%;` run in both cases
C11_IfThenElse ==
    \A C \in Conds, A \in Arms, B \in Arms, R \in Rests :
        FirstWriteOf(IfThenElse(C, A, B, R)) =>
            AsExpected(CondThenRest(last.pre.env, C, A, B, R))

\* the claim of C11 about x in the false case only
AsExpectedElse(x) == x.ok /\ ~x.taken => last.ret.kind = "Ok" /\ out = x.w

\* the part of C11 that holds: the false case, and `%?C%tA%;R` in both cases
C11_ElseAndIfThen ==
    /\ \A C \in Conds, A \in Arms, B \in Arms, R \in Rests :
        FirstWriteOf(IfThenElse(C, A, B, R)) =>
            AsExpectedElse(CondThenRest(last.pre.env, C, A, B, R))
    /\ \A C \in Conds, A \in Arms, R \in Rests :
        FirstWriteOf(IfThen(C, A, R)) =>
            AsExpected(CondThenRest(last.pre.env, C, A, <<>>, R))

\* the first write of an executor built for src and given no argument
FirstWriteNoArgs(src) ==
    FirstWriteOf(src) /\ last.pre.env = ExecutionEnvironment_new

\* C12: `%{N}` pushes the integer N and `%'c'` pushes the char c:
\* "%{8}%{22}%+%d%'c'%c" run with no arguments writes "30c", "%{8}%d"
\* writes "8" and "%'c'%c" writes "c"
C12_LiteralPush ==
    /\ FirstWriteNoArgs(LiteralSum) =>
            last.ret.kind = "Ok" /\ out = Str(<<"3", "0", "c">>)
    /\ FirstWriteNoArgs(LiteralInt) =>
            last.ret.kind = "Ok" /\ out = Str(<<"8">>)
    /\ FirstWriteNoArgs(LiteralChar) =>
            last.ret.kind = "Ok" /\ out = Str(<<"c">>)

\* the parameter the executor was given first, when it is an integer
FirstIntArg(e) ==
    IF e.env.arguments[1].some /\ e.env.arguments[1].val.type = "integer"
    THEN Some(e.env.arguments[1].val.int) ELSE None

\* the decimal digits of a number below 100
Decimal(n) ==
    IF n < 10 THEN <<Ord("0") + n>>
    ELSE <<Ord("0") + (n \div 10), Ord("0") + (n % 10)>>

\* C13: the else-if chain (a second `%t` after `%e`) parses and, for one
\* integer parameter c >= 0, writes ESC[3<c>m when c < 8, ESC[9<c-8>m when
\* 8 <= c < 16 and ESC[38;5;<c>m otherwise
C13_ElseIfChain ==
    FirstWriteOf(ElseIfChain) /\ FirstIntArg(last.pre).some
            /\ FirstIntArg(last.pre).val >= 0 =>
        LET c == FirstIntArg(last.pre).val
        IN /\ last.ret.kind = "Ok"
           /\ out = <<27>> \o Str(<<"[">>) \o
                (IF c < 8 THEN Str(<<"3">>) \o Decimal(c)
                 ELSE IF c < 16 THEN Str(<<"9">>) \o Decimal(c - 8)
                 ELSE Str(<<"3", "8", ";", "5", ";">>) \o Decimal(c))
                \o Str(<<"m">>)

\* a second `%t` after `%e` without literals: "%?%p1%tA%e%p2%tB%eC%;"
\* writes A when p1 is true, else B when p2 is true, else C
C13_PlainElseIf ==
    FirstWriteOf(PlainElseIf) =>
        LET a == pop_bool(push(last.pre.env,
                    IF last.pre.env.arguments[1].some
                    THEN last.pre.env.arguments[1].val ELSE Integer(0))).val
            b == pop_bool(push(last.pre.env,
                    IF last.pre.env.arguments[2].some
                    THEN last.pre.env.arguments[2].val ELSE Integer(0))).val
        IN /\ last.ret.kind = "Ok"
           /\ out = Str(IF a THEN <<"A">> ELSE IF b THEN <<"B">> ELSE <<"C">>)

\* the first two parameters of an executor are integers
TwoIntArgs(e) ==
    \A i \in 1..2 :
        e.env.arguments[i].some /\ e.env.arguments[i].val.type = "integer"

\* C14: each binary opcode pops the right operand, then the left one, and
\* pushes `left op right`, left being the value pushed earlier: `%p1%p2%-`
\* leaves p1 - p2, `%p1%p2%/` leaves p1 / p2, `%p1%p2%<` leaves 1 exactly
\* when p1 < p2
C14_LeftOpRight ==
    \A c \in BinaryBytes :
        FirstWriteOf(Binary(c)) /\ TwoIntArgs(last.pre) =>
            LET left == last.pre.env.arguments[1].val.int
                right == last.pre.env.arguments[2].val.int
            IN (SimpleOps[c] \in {"Div", "Mod"} => right # 0) =>
                /\ last.ret.kind = "Ok"
                /\ exe.env.stack = <<Closure2(SimpleOps[c], left, right)>>

\* the part of C14 that holds: the opcodes whose operands may be exchanged
C14_Commutative ==
    \A c \in {Ord("+"), Ord("*"), Ord("&"), Ord("|"), Ord("^"), Ord("=")} :
        FirstWriteOf(Binary(c)) /\ TwoIntArgs(last.pre) =>
            /\ last.ret.kind = "Ok"
            /\ exe.env.stack =
                <<Closure2(SimpleOps[c], last.pre.env.arguments[1].val.int,
                           last.pre.env.arguments[2].val.int)>>

\* C15: `%!` replaces an integer x on top of the stack by 1 when x = 0 and
\* by 0 when x # 0; `%~` replaces it by its bitwise complement -x - 1
C15_NotAndInvert ==
    \A c \in UnaryBytes :
        FirstWriteOf(Unary(c)) /\ FirstIntArg(last.pre).some =>
            LET x == FirstIntArg(last.pre).val
            IN /\ last.ret.kind = "Ok"
               /\ exe.env.stack =
                    <<Integer(IF c = Ord("~") THEN -x - 1
                              ELSE IF x = 0 THEN 1 ELSE 0)>>

\* the part of C15 that holds: `%~` on every integer, `%!` on x # 0
C15_InvertAndNonZero ==
    \A c \in UnaryBytes :
        FirstWriteOf(Unary(c)) /\ FirstIntArg(last.pre).some =>
            LET x == FirstIntArg(last.pre).val
            IN c = Ord("~") \/ x # 0 =>
                /\ last.ret.kind = "Ok"
                /\ exe.env.stack =
                    <<Integer(IF c = Ord("~") THEN -x - 1 ELSE 0)>>

\* the decimal notation of a number between -99 and 99
SignedDecimal(n) == IF n < 0 THEN Str(<<"-">>) \o Decimal(-n) ELSE Decimal(n)

\* parameter i (from 1) as `%p<i>` pushes it
Pushed(e, i) ==
    IF e.env.arguments[i].some THEN e.env.arguments[i].val ELSE Integer(0)

\* the frame of `%i`, on "%p3%p1%i": parameters 1 and 2 grow by one when
\* they are integers, every other parameter and the stack built before
\* `%i` stay as they were
IncrementFrame ==
    FirstWriteOf(IncrementOnly) =>
        /\ last.ret.kind = "Ok"
        /\ out = <<>>
        /\ exe.env.stack = <<Pushed(last.pre, 3), Pushed(last.pre, 1)>>
        /\ \A i \in 1..9 :
            LET old == last.pre.env.arguments[i]
                new == exe.env.arguments[i]
            IN IF i <= 2 /\ old.some /\ old.val.type = "integer"
               THEN new = Some(Integer(old.val.int + 1))
               ELSE new = old

\* the output of "%i%p1%d.%p2%d" given the integers a and b
IncrementOutput ==
    FirstWriteOf(IncrementPrint) /\ TwoIntArgs(last.pre) =>
        /\ last.ret.kind = "Ok"
        /\ out = SignedDecimal(last.pre.env.arguments[1].val.int + 1)
                    \o Str(<<".">>)
                    \o SignedDecimal(last.pre.env.arguments[2].val.int + 1)

\* C16: `%i` adds exactly 1 to parameters 0 and 1 when they hold integers
\* and leaves parameters 2..8, non-integer or unset parameters and the
\* stack unchanged; hence "%i%p1%d.%p2%d" with the integers a, b writes the
\* decimal of a + 1, a dot and the decimal of b + 1
C16_IncrementArgs == IncrementFrame /\ IncrementOutput

\* the part of C16 that holds: the frame of `%i`, and the output whenever
\* neither a + 1 nor b + 1 is zero
C16_FrameAndNonZero ==
    /\ IncrementFrame
    /\ FirstWriteOf(IncrementPrint) /\ TwoIntArgs(last.pre)
            /\ last.pre.env.arguments[1].val.int # -1
            /\ last.pre.env.arguments[2].val.int # -1 =>
        /\ last.ret.kind = "Ok"
        /\ out = SignedDecimal(last.pre.env.arguments[1].val.int + 1)
                    \o Str(<<".">>)
                    \o SignedDecimal(last.pre.env.arguments[2].val.int + 1)

----------------------------------------------------------------------------
(* SpecArgs: any sequence of arg and argi calls on one executor            *)

\* the number of parameter slots
SLOTS == 9
\* slots given to argi: the first two, the last one and one past the end
AnyArgiSlots == {0, 1, SLOTS - 1, SLOTS}
\* the value every arg call appends, and the value every argi call sets
Appended7 == {Integer(7)}
Set9 == {Integer(9)}

ArgsNew == LangNewIn({IncrementPrint})
ArgsArg == LangArgIn(Appended7, SLOTS + 1)
ArgsArgi == LangArgiIn(AnyArgiSlots, Set9)

NextArgs == ArgsNew \/ ArgsArg \/ ArgsArgi

SpecArgs == InitLang /\ [][NextArgs]_vars

\* the slots of an executor that hold a value
Filled(e) == { i \in 0..SLOTS - 1 : e.env.arguments[i + 1].some }

\* argi(i, v) sets exactly slot i when i < 9 and changes nothing otherwise
ArgiSetsSlot ==
    last.op = "argi" =>
        IF last.i < SLOTS
        THEN exe = [last.pre EXCEPT !.env.arguments[last.i + 1] = Some(last.v)]
        ELSE exe = last.pre

\* arg(v) never overwrites a slot that holds a value
ArgKeepsFilled ==
    last.op = "arg" =>
        \A i \in Filled(last.pre) :
            exe.env.arguments[i + 1] = last.pre.env.arguments[i + 1]

\* arg(v) stores v in the next free slot: in exactly one slot that held no
\* value, and in the lowest such slot
ArgFillsNextFree ==
    last.op = "arg" /\ Filled(last.pre) # 0..SLOTS - 1 =>
        LET free == CHOOSE i \in 0..SLOTS - 1 :
                        /\ i \notin Filled(last.pre)
                        /\ \A j \in 0..i - 1 : j \in Filled(last.pre)
        IN exe.env.arguments =
                [last.pre.env.arguments EXCEPT ![free + 1] = Some(last.v)]

\* once 9 values were appended, arg changes nothing
ArgIgnoredWhenFull ==
    last.op = "arg" /\ last.pre.argc = SLOTS => exe = last.pre

\* C17: after any sequence of arg and argi calls, argi(i, v) with i < 9
\* sets exactly slot i and with i >= 9 changes nothing; arg(v) stores v in
\* the next free slot and never overwrites a slot that holds a value, one
\* set by argi included; after 9 appended values arg changes nothing
C17_ArgSlots ==
    ArgiSetsSlot /\ ArgKeepsFilled /\ ArgFillsNextFree /\ ArgIgnoredWhenFull

\* the part of C17 that holds: argi, and arg once 9 values were appended
C17_ArgiAndFull == ArgiSetsSlot /\ ArgIgnoredWhenFull

----------------------------------------------------------------------------
(* The value Executor::write returns                                       *)

\* C19: Executor::write reports the total number of bytes it wrote: on
\* success the value returned is the number of bytes that the PrintSlice
\* and Print instructions executed have added to the writer
C19_WriteCount ==
    last.op = "write" /\ last.ret.kind = "Ok" =>
        /\ last.ret.val # Unit
        /\ last.ret.val = Len(out) - Len(last.w0)

\* what holds instead: a successful write returns () and the bytes it has
\* written are the ones added to the writer
C19_WriteAppends ==
    last.op = "write" =>
        /\ last.ret.kind = "Ok" => last.ret.val = Unit
        /\ Upto(out, Len(last.w0)) = last.w0

----------------------------------------------------------------------------
(* SpecPrintf: PrintfArgs::print on every spec and argument                *)

\* the largest width and precision of a spec
MaxWidth == 4
MaxPrec == 2

\* every PrintfArgs that PrintfArgs::parse can return within the bounds
PrintfSpecs ==
    [left_align : BOOLEAN, show_sign : BOOLEAN, pad_sign : BOOLEAN,
     alt : BOOLEAN,
     width : {None} \cup { Some(w) : w \in 0..MaxWidth },
     prec : {None} \cup { Some(n) : n \in 0..MaxPrec },
     character : Conversions]

\* the arguments printed: integers of one to three digits in every radix
\* and zero, strings of 0 to 3 bytes, a char
PrintedInts == {Integer(-255), Integer(-8), Integer(0), Integer(7), Integer(255)}
PrintedStrings == {String(<<>>), String(Str(<<"a">>)), String(Str(<<"a", "b", "c">>))}
PrintedChars == {Char(Ord("c"))}

\* the call record and the output of one print that returned r
PrintfPrinted(spec, arg, r) ==
    /\ out' = IF r.kind = "Ok" THEN r.val ELSE <<>>
    /\ last' = [op |-> "print", spec |-> spec, arg |-> arg, ret |-> r.kind,
                err |-> IF r.kind = "Err" THEN r.err ELSE <<>>]

\* what the call record holds for a print with no operand
NoOperand == [type |-> "null"]

\* spec.print(&mut out, arg) on an empty out, arg being Some(..) or None
PrintfPrint ==
    /\ last = NoCall
    /\ \E spec \in PrintfSpecs :
         \/ \E arg \in PrintedInts :
              PrintfPrinted(spec, arg, PrintfArgs_print(spec, Some(arg)))
         \/ \E arg \in PrintedStrings :
              PrintfPrinted(spec, arg, PrintfArgs_print(spec, Some(arg)))
         \/ \E arg \in PrintedChars :
              PrintfPrinted(spec, arg, PrintfArgs_print(spec, Some(arg)))
         \/ PrintfPrinted(spec, NoOperand, PrintfArgs_print(spec, None))
    /\ UNCHANGED <<bytes, base, parsed, tib, exe>>

NextPrintf == PrintfPrint

SpecPrintf == InitLang /\ [][NextPrintf]_vars

\* the argument fits the conversion: an integer for d, o, x, X, a string
\* for s, a char for c
Matching(spec, arg) ==
    \/ arg.type = "integer" /\
            spec.character \in {Ord("d"), Ord("o"), Ord("x"), Ord("X")}
    \/ arg.type = "string" /\ spec.character = Ord("s")
    \/ arg.type = "char" /\ spec.character = Ord("c")

\* the digits of n >= 0 in the radix of the conversion, "0" for zero
DigitsOf(spec, n) ==
    LET radix == IF spec.character = Ord("d") THEN 10
                 ELSE IF spec.character = Ord("o") THEN 8 ELSE 16
        chars == IF spec.character = Ord("X")
                 THEN UPPERCASE_NUM_CHARS ELSE NUM_CHARS
    IN IF n = 0 THEN Str(<<"0">>) ELSE number_digits(n, radix, chars)

\* the sign and the alternate-form prefix of a number
PrefixOf(spec, n) ==
    (IF n < 0 THEN Str(<<"-">>)
     ELSE IF spec.pad_sign THEN Str(<<" ">>)
     ELSE IF spec.show_sign THEN Str(<<"+">>) ELSE <<>>)
    \o (IF ~spec.alt THEN <<>>
        ELSE IF spec.character = Ord("o") THEN Str(<<"0">>)
        ELSE IF spec.character = Ord("x") THEN Str(<<"0", "x">>)
        ELSE IF spec.character = Ord("X") THEN Str(<<"0", "X">>)
        ELSE <<>>)

\* at most the first p elements of a sequence, all of them without p
Truncated(sq, p) == IF p.some /\ p.val < Len(sq) THEN Upto(sq, p.val) ELSE sq

\* prefix and digits of a number, the bytes of a string cut to the
\* precision, the char
BodyOf(spec, arg) ==
    IF arg.type = "integer"
    THEN PrefixOf(spec, arg.int)
            \o Truncated(DigitsOf(spec, Abs(arg.int)), spec.prec)
    ELSE IF arg.type = "string" THEN Truncated(arg.str, spec.prec)
    ELSE <<arg.chr>>

\* body padded with spaces to the width: before it, or after it with `-`
Padded(spec, body) ==
    IF ~spec.width.some \/ Len(body) >= spec.width.val THEN body
    ELSE IF spec.left_align
    THEN body \o [i \in 1..spec.width.val - Len(body) |-> Ord(" ")]
    ELSE [i \in 1..spec.width.val - Len(body) |-> Ord(" ")] \o body

\* C20: for every spec and matching argument the output of the formatter
\* is the body padded with spaces to the width (after the body with `-`,
\* before it otherwise, none when the body is long enough); the body is
\* the sign and alternate prefix followed by the first min(p, ndigits)
\* digits for d, o, x, X, the first min(p, len) bytes for s, and the char
\* for c
C20_Formatter ==
    last.op = "print" /\ Matching(last.spec, last.arg) =>
        /\ last.ret = "Ok"
        /\ out = Padded(last.spec, BodyOf(last.spec, last.arg))

\* the part of C20 that holds: every matching argument but the number 0
C20_ButZero ==
    last.op = "print" /\ Matching(last.spec, last.arg)
            /\ last.arg # Integer(0) =>
        /\ last.ret = "Ok"
        /\ out = Padded(last.spec, BodyOf(last.spec, last.arg))

----------------------------------------------------------------------------
(* SpecFormat: PrintfArgs::parse on widths and precisions                  *)

\* the longest digit string of a width or a precision
MaxDigits == 2

\* the digit strings of 1 to MaxDigits digits out of 0, 1, 2 and 9
DigitStrings ==
    UNION { [1..n -> {Ord("0"), Ord("1"), Ord("2"), Ord("9")}] : n \in 1..MaxDigits }

\* let r = PrintfArgs::parse(src)
FormatParsed(src, W, P) ==
    /\ last' = [op |-> "parse_format", src |-> src, width |-> W, prec |-> P,
                ret |-> PrintfArgs_parse(src)]
    /\ UNCHANGED <<bytes, base, parsed, tib, exe, out>>

\* PrintfArgs::parse(b"<W>d"), (b".<P>s") and (b"<W>.<P>d")
FormatParse ==
    /\ last = NoCall
    /\ \/ \E W \in DigitStrings :
            FormatParsed(W \o <<Ord("d")>>, Some(W), None)
       \/ \E P \in DigitStrings :
            FormatParsed(<<Ord(".")>> \o P \o <<Ord("s")>>, None, Some(P))
       \/ \E W \in DigitStrings, P \in DigitStrings :
            FormatParsed(W \o <<Ord(".")>> \o P \o <<Ord("d")>>, Some(W), Some(P))

NextFormat == FormatParse

SpecFormat == InitLang /\ [][NextFormat]_vars

\* the value of a digit string read most significant digit first
RECURSIVE DecimalValue(_)
DecimalValue(D) ==
    IF D = <<>> THEN 0
    ELSE 10 * DecimalValue(Upto(D, Len(D) - 1)) + (D[Len(D)] - Ord("0"))

\* the number a field of the format is to give: none without digits
FieldValue(D) == IF D.some THEN Some(DecimalValue(D.val)) ELSE None

Palindrome(D) == \A i \in 1..Len(D) : D[i] = D[Len(D) + 1 - i]

\* the part of C21 that holds: the fields are found and their conversion
\* character is read; the value is right for digit strings that read the
\* same backwards
C21_Palindromes ==
    last.op = "parse_format" =>
        /\ last.ret.kind = "Ok"
        /\ last.ret.val.width.some = last.width.some
        /\ last.ret.val.prec.some = last.prec.some
        /\ last.width.some /\ Palindrome(last.width.val) =>
                last.ret.val.width = FieldValue(last.width)
        /\ last.prec.some /\ Palindrome(last.prec.val) =>
                last.ret.val.prec = FieldValue(last.prec)

----------------------------------------------------------------------------
(* C22: the type errors of the formatter and of the opcodes                *)

\* the type a conversion character requires
ExpectedType(character) ==
    IF character = Ord("s") THEN "string"
    ELSE IF character = Ord("c") THEN "char"
    ELSE "integer"

\* C22: an operand of the wrong type gives UnexpectedArgumentType(expected,
\* got), expected naming the type the conversion requires and got the type
\* of the operand: d, o, x, X given a string or a char, `%s` given an
\* integer or a char, `%c` given an integer or a string; a print with no
\* operand writes "(null)" and is no error
C22_TypeErrors ==
    last.op = "print" =>
        IF last.arg = NoOperand THEN last.ret = "Ok" /\ out = NULL
        ELSE ~Matching(last.spec, last.arg) =>
                /\ last.ret = "Err"
                /\ last.err = <<"UnexpectedArgumentType",
                                ExpectedType(last.spec.character), last.arg.type>>

\* the part of C22 that holds in the formatter: every case but a char
\* given to `%s`
C22_ButCharAsString ==
    last.op = "print" =>
        IF last.arg = NoOperand THEN last.ret = "Ok" /\ out = NULL
        ELSE ~Matching(last.spec, last.arg)
                /\ ~(last.arg.type = "char" /\ last.spec.character = Ord("s")) =>
                /\ last.ret = "Err"
                /\ last.err = <<"UnexpectedArgumentType",
                                ExpectedType(last.spec.character), last.arg.type>>

\* the type of the first operand, in the order the opcode pops them (p2,
\* then p1), that is no integer
FirstNonInteger(e) ==
    IF e.env.arguments[2].val.type # "integer" THEN e.env.arguments[2].val.type
    ELSE e.env.arguments[1].val.type

\* the part of C22 about the opcodes: an arithmetic opcode given an operand
\* that is no integer fails with UnexpectedArgumentType("integer", got), and
\* `%l` given an operand that is no string with ("string", got)
C22_OpcodeOperands ==
    /\ \A c \in BinaryBytes :
        /\ FirstWriteOf(Binary(c))
        /\ \A i \in 1..2 : last.pre.env.arguments[i].some
        /\ ~TwoIntArgs(last.pre)
        => last.ret = UnexpectedArgumentType("integer", FirstNonInteger(last.pre))
    /\ FirstWriteOf(StrLenPrint) /\ last.pre.env.arguments[1].some
            /\ last.pre.env.arguments[1].val.type # "string"
        => last.ret = UnexpectedArgumentType("string",
                                             last.pre.env.arguments[1].val.type)

----------------------------------------------------------------------------
(* SpecStrlen: strlen and has_null_byte of both crates on their own        *)

\* the longest buffer handed to strlen
MaxBuf == 17

\* the word loop and the last lines of strlen in the terminfo crate: words
\* i.. of mem[offset..], then the look at the last byte
RECURSIVE terminfo_strlen_words(_, _, _)
terminfo_strlen_words(mem, offset, i) ==
    IF i >= (Len(mem) - offset) \div WORD_SIZE
    THEN IF Len(mem) > 0 /\ mem[Len(mem)] = 0 THEN Len(mem) - 1 ELSE Len(mem)
    ELSE IF has_null_byte([k \in 1..WORD_SIZE |-> mem[offset + i * WORD_SIZE + k]])
         THEN offset + i * WORD_SIZE + find_zero(mem, offset + i * WORD_SIZE, Len(mem))
         ELSE terminfo_strlen_words(mem, offset, i + 1)

\* strlen(s) of the terminfo crate with every word read as stored
terminfo_strlen(mem) ==
    LET offset == Len(mem) % WORD_SIZE
    IN IF \E i \in 1..offset : mem[i] = 0
       THEN find_zero(mem, 0, offset)
       ELSE terminfo_strlen_words(mem, offset, 0)

\* the words of the terminfo crate's strlen are read through a *const usize
\* at s + len % WORD_SIZE, which is no multiple of the word size unless the
\* address is: such a read is undefined, it gives the bytes stored or faults
terminfo_strlen_outcomes(mem, addr) ==
    IF Len(mem) >= WORD_SIZE /\ (addr + (Len(mem) % WORD_SIZE)) % WORD_SIZE # 0
            /\ ~(\E i \in 1..(Len(mem) % WORD_SIZE) : mem[i] = 0)
    THEN {Ok(terminfo_strlen(mem)), Panic}
    ELSE {Ok(terminfo_strlen(mem))}

\* a buffer of n bytes `fill` with zeros at the indices z1 and z2 (from 0),
\* an index of n or more giving no zero
Buffer(n, fill, z1, z2) == [i \in 1..n |-> IF i - 1 \in {z1, z2} THEN 0 ELSE fill]

\* the bytes a word is made of here
WordBytes == {0, 1, 255}

\* the result of one call on the buffer mem at address addr
StrlenCalled(op, mem, addr, ret) ==
    /\ bytes' = mem
    /\ base' = addr
    /\ last' = [op |-> op, ret |-> ret]
    /\ UNCHANGED <<parsed, tib, exe, out>>

\* util::strlen(&buf) of the facade crate
Strlen ==
    /\ last = NoCall
    /\ \E n \in 0..MaxBuf, addr \in 0..(WORD_SIZE - 1), fill \in {1, 255} :
        \E z1 \in 0..n, z2 \in 0..n :
            StrlenCalled("strlen", Buffer(n, fill, z1, z2), addr,
                         Ok(strlen(Buffer(n, fill, z1, z2), addr, 0, n)))

\* util::strlen(&buf) of the terminfo crate
TerminfoStrlen ==
    /\ last = NoCall
    /\ \E n \in 0..MaxBuf, addr \in 0..(WORD_SIZE - 1), fill \in {1, 255} :
        \E z1 \in 0..n, z2 \in 0..n :
            \E r \in terminfo_strlen_outcomes(Buffer(n, fill, z1, z2), addr) :
                StrlenCalled("terminfo_strlen", Buffer(n, fill, z1, z2), addr, r)

\* util::has_null_byte(w), w given as its bytes in memory
HasNullByte ==
    /\ last = NoCall
    /\ \E w \in [1..WORD_SIZE -> WordBytes] :
            StrlenCalled("has_null_byte", w, 0, has_null_byte(w))

NextStrlen == Strlen \/ TerminfoStrlen \/ HasNullByte

SpecStrlen == InitLang /\ [][NextStrlen]_vars

\* the index of the first zero of buf, its length if it has none
FirstNul(buf) ==
    IF \E i \in 1..Len(buf) : buf[i] = 0
    THEN (CHOOSE i \in 1..Len(buf) : buf[i] = 0 /\ \A j \in 1..(i - 1) : buf[j] # 0) - 1
    ELSE Len(buf)

\* C23: strlen(buf) is the index of the first zero byte of buf, or buf.len()
\* without one, for every length, alignment and position of the zero;
\* has_null_byte(w) is true exactly when some byte of w is zero
C23_Strlen ==
    /\ last.op \in {"strlen", "terminfo_strlen"} => last.ret = Ok(FirstNul(bytes))
    /\ last.op = "has_null_byte" => (last.ret <=> \E i \in 1..WORD_SIZE : bytes[i] = 0)

\* the part of C23 that holds: the facade's strlen is right at an address
\* that is no multiple of the word size, where it reads byte by byte;
\* has_null_byte sees a zero in each byte but the most significant one
C23_ByteWise ==
    /\ last.op = "strlen" /\ base % WORD_SIZE # 0 => last.ret = Ok(FirstNul(bytes))
    /\ last.op = "has_null_byte" =>
            (last.ret <=> \E i \in 1..(WORD_SIZE - 1) : bytes[i] = 0)

----------------------------------------------------------------------------
(* SpecTerm: the facade's writers on a buffer that lacks a capability      *)

\* the string capabilities the writers ask for, by their terminfo index
ClrEol == 6
ExitAttributeMode == 39
SetAttributes == 131

\* the longest string table of a buffer the writers run on
MaxTermTable == 6

\* TermInfoBuf::exec
TermInfoBuf_exec(b, field) ==
    IF StringTable_get(b.strtab, nth_or(b.strings, field, invalid)).kind = "Ok"
    THEN Some(Executor_new(
            StringTable_get(b.strtab, nth_or(b.strings, field, invalid)).val))
    ELSE None

\* TermWriter::exec and Term::exec
Term_exec(info, field) ==
    IF TermInfoBuf_exec(info, field).some
    THEN Ok(TermInfoBuf_exec(info, field).val)
    ELSE Err([kind |-> "MissingTermInfoField", field |-> field])

\* e.context(ErrorKind::FailedToRunTerminfo(field))
FailedToRunTerminfo(field, cause) ==
    [kind |-> "FailedToRunTerminfo", field |-> field, cause |-> cause]

\* the cause a failed Executor::write stands for in an error of a writer
LangError == [kind |-> "Executor", field |-> -1]

\* what a call of a writer leaves: whether it returned, the error the writer
\* holds and the bytes on stdout
Returned(err, w) == [kind |-> "Ok", err |-> err, w |-> w]

\* the end of TermWriter::write_bytes after set_sgr: write_fg_bg without a
\* colour writes nothing, then stdout.write(buf)
sgr_written(r, buf) ==
    IF r.ret.kind = "Panic" THEN Panic
    ELSE IF r.ret.kind = "Ok" THEN Returned(None, r.w \o buf)
    ELSE Returned(Some(FailedToRunTerminfo(SetAttributes, LangError)), r.w \o buf)

\* the seven attributes of a writer, in the order set_sgr hands them over:
\* standout, underline, invert, blink, dim, bold, invisible
RECURSIVE with_args(_, _)
with_args(e, flags) ==
    IF flags = <<>> THEN e
    ELSE with_args(Executor_arg(e, FromBool(Head(flags))), Tail(flags))

\* TermWriter::set_sgr followed by the rest of write_bytes; sgr is
\* self.exec(terminfo::SetAttributes), which set_sgr unwraps
set_sgr(sgr, flags, buf) ==
    IF sgr.kind # "Ok" THEN Panic
    ELSE sgr_written(Executor_write(with_args(sgr.val, flags), <<>>), buf)

\* TermWriter::write_bytes on a writer without error and without colours
TermWriter_write_bytes(info, flags, buf) ==
    set_sgr(Term_exec(info, SetAttributes), flags, buf)

\* the Ok arm of write_info_str: the executor writes to stdout
info_str_written(r, field) ==
    IF r.ret.kind = "Panic" THEN Panic
    ELSE IF r.ret.kind = "Ok" THEN Returned(None, r.w)
    ELSE Returned(Some(FailedToRunTerminfo(field, LangError)), r.w)

\* TermWriter::write_info_str on a writer without error
TermWriter_write_info_str(info, flags, field, fallback) ==
    IF Term_exec(info, field).kind = "Ok"
    THEN info_str_written(Executor_write(Term_exec(info, field).val, <<>>), field)
    ELSE TermWriter_write_bytes(info, flags, fallback)

\* Term::write_info_str
Term_write_info_str(info, field) ==
    IF Term_exec(info, field).kind = "Ok"
    THEN info_str_written(Executor_write(Term_exec(info, field).val, <<>>), field)
    ELSE Returned(Some(FailedToRunTerminfo(field, Term_exec(info, field).err)), <<>>)

\* ansi::ALL_OFF, "\x1b[0m"
ALL_OFF == <<27, Ord("["), Ord("0"), Ord("m")>>

\* the capability strings given to the buffer: "S", "%p6%d" and "%+"
TermStrings ==
    {Str(<<"S">>), Str(<<"%", "p", "6", "%", "d">>), Str(<<"%", "+">>)}

TermFields == {ClrEol, ExitAttributeMode, SetAttributes}

InitTerm ==
    /\ base = 0
    /\ last = NoCall
    /\ LangIdle
    /\ bytes = <<>>
    /\ parsed = NotParsed
    /\ tib = TermInfoBuf_new

\* no call of a writer aborted
TermRunning ==
    IF last.op \in {"none", "set_string"} THEN TRUE ELSE last.ret.kind # "Panic"

\* info.set_string(field, v) before the terminal is used
TermSetString ==
    /\ TermRunning
    /\ Len(tib.strtab) < MaxTermTable
    /\ \E i \in TermFields, v \in TermStrings :
        /\ tib' = set_string(tib, i, v).buf
        /\ last' = Call("set_string", <<i, v>>, set_string(tib, i, v).ret)
    /\ UNCHANGED <<bytes, base, parsed, exe, out>>

\* r is what a call of a writer that needs the capability `field` left
TermCalled(op, field, r) ==
    /\ last' = [op |-> op, field |-> field, ret |-> r,
                defined |-> TermInfoBuf_exec(tib, field).some]
    /\ out' = IF r.kind = "Ok" THEN r.w ELSE <<>>
    /\ UNCHANGED <<bytes, base, parsed, tib, exe>>

\* term.writer().print("hi").done() and term.writer().bold().print("hi").done()
TermPrint ==
    /\ TermRunning
    /\ \E bold \in BOOLEAN :
        TermCalled("print", SetAttributes,
            TermWriter_write_bytes(tib,
                <<FALSE, FALSE, FALSE, FALSE, FALSE, bold, FALSE>>,
                Str(<<"h", "i">>)))

\* term.writer().clear().done()
TermClear ==
    /\ TermRunning
    /\ TermCalled("clear", ExitAttributeMode,
            TermWriter_write_info_str(tib,
                <<FALSE, FALSE, FALSE, FALSE, FALSE, FALSE, FALSE>>,
                ExitAttributeMode, ALL_OFF))

\* term.clear_line_after_cursor(); term.err()
TermClearLine ==
    /\ TermRunning
    /\ TermCalled("clear_line_after_cursor", ClrEol, Term_write_info_str(tib, ClrEol))

NextTerm == TermSetString \/ TermPrint \/ TermClear \/ TermClearLine

SpecTerm == InitTerm /\ [][NextTerm]_vars

\* the error a writer holds is, or is caused by, MissingTermInfoField(field)
SurfacesMissing(r, field) ==
    /\ r.err.some
    /\ \/ r.err.val = [kind |-> "MissingTermInfoField", field |-> field]
       \/ r.err.val.cause = [kind |-> "MissingTermInfoField", field |-> field]

\* C24: when the facade needs a string capability the buffer does not
\* define, such as SetAttributes when a TermWriter prints, the call does not
\* abort: it returns and the failure surfaces as MissingTermInfoField(field)
C24_MissingField ==
    last.op = "print" /\ ~last.defined =>
        /\ last.ret.kind = "Ok"
        /\ SurfacesMissing(last.ret, last.field)

\* the part of C24 that holds: Term::write_info_str, behind
\* clear_line_after_cursor, returns and reports the missing capability
C24_TermWriteInfoStr ==
    last.op = "clear_line_after_cursor" /\ ~last.defined =>
        /\ last.ret.kind = "Ok"
        /\ SurfacesMissing(last.ret, last.field)

----------------------------------------------------------------------------
(* SpecMalformed: capability strings that are cut short or unknown         *)

\* a conditional without its `%t` or its closing `%;`: "%?", "%?%", "%?%p1",
\* "%?%p1%t", "%?%p1%tA", "%?%p1%tA%", "%?%p1%tA%e" and "%?%p1%tA%eB"
OpenConditionals ==
    {Str(<<"%", "?">>),
     Str(<<"%", "?", "%">>),
     Str(<<"%", "?", "%", "p", "1">>),
     Str(<<"%", "?", "%", "p", "1", "%", "t">>),
     Str(<<"%", "?", "%", "p", "1", "%", "t", "A">>),
     Str(<<"%", "?", "%", "p", "1", "%", "t", "A", "%">>),
     Str(<<"%", "?", "%", "p", "1", "%", "t", "A", "%", "e">>),
     Str(<<"%", "?", "%", "p", "1", "%", "t", "A", "%", "e", "B">>)}

\* a lone `%` at the end: "%" and "A%"
TrailingPercent == {Str(<<"%">>), Str(<<"A", "%">>)}

\* an opcode that does not exist: "%z", "A%y" and "%p0"
UnknownOpcodes ==
    {Str(<<"%", "z">>), Str(<<"A", "%", "y">>), Str(<<"%", "p", "0">>)}

Malformed == OpenConditionals \cup TrailingPercent \cup UnknownOpcodes

MalformedNew == LangNewIn(Malformed)

NextMalformed == MalformedNew \/ LangArg \/ LangWrite

SpecMalformed == InitLang /\ [][NextMalformed]_vars

\* C25: every malformed capability string is rejected with an error value
\* and never aborts: a `%?` without its `%t` and its closing `%;`, also when
\* the string ends right after `%?`, `%t` or `%e`, and a trailing lone `%`
\* give UnexpectedEof; an opcode that is not known gives a parse error
C25_Rejected ==
    last.op = "write" /\ last.nth = 1 =>
        /\ last.pre.src \in OpenConditionals \cup TrailingPercent =>
                last.ret.kind = "Err" /\ last.ret.err = "UnexpectedEof"
        /\ last.pre.src \in UnknownOpcodes => last.ret.kind = "Err"

\* the strings that end right after `%?`, `%t` or `%e`, or with the `%`
\* that follows `%?`
EndsInConditional ==
    {Str(<<"%", "?">>),
     Str(<<"%", "?", "%">>),
     Str(<<"%", "?", "%", "p", "1", "%", "t">>),
     Str(<<"%", "?", "%", "p", "1", "%", "t", "A", "%", "e">>)}

\* the part of C25 that holds: the malformed strings that do not end at the
\* start of a part of a conditional
C25_ButAtPartStart ==
    last.op = "write" /\ last.nth = 1 =>
        /\ last.pre.src \in (OpenConditionals \cup TrailingPercent) \ EndsInConditional =>
                last.ret.kind = "Err" /\ last.ret.err = "UnexpectedEof"
        /\ last.pre.src \in UnknownOpcodes => last.ret.kind = "Err"

----------------------------------------------------------------------------
(* C26: the integer zero                                                   *)

\* C26: `%d`, `%o`, `%x` and `%X` of the integer 0, without flags, width or
\* precision, write the single byte "0"; "%p1%d;%p2%dH" with the arguments
\* 0 and 0 writes "0;0H"
C26_Zero ==
    /\ \A c \in IntegerConversions :
        FirstWriteOf(PrintInteger(c)) /\ last.pre.env.arguments[1] = Some(Integer(0))
            => last.ret.kind = "Ok" /\ out = Str(<<"0">>)
    /\ FirstWriteOf(CursorAddress)
            /\ last.pre.env.arguments[1] = Some(Integer(0))
            /\ last.pre.env.arguments[2] = Some(Integer(0))
        => last.ret.kind = "Ok" /\ out = Str(<<"0", ";", "0", "H">>)

\* the part of C26 that holds: the call succeeds and everything but the
\* digit of the zero is written
C26_AllButTheDigit ==
    /\ \A c \in IntegerConversions :
        FirstWriteOf(PrintInteger(c)) /\ last.pre.env.arguments[1] = Some(Integer(0))
            => last.ret.kind = "Ok" /\ out = <<>>
    /\ FirstWriteOf(CursorAddress)
            /\ last.pre.env.arguments[1] = Some(Integer(0))
            /\ last.pre.env.arguments[2] = Some(Integer(0))
        => last.ret.kind = "Ok" /\ out = Str(<<";", "H">>)

----------------------------------------------------------------------------
(* C27: what set_ext_* leaves alone                                        *)

\* files with two predefined numbers and strings (8, 9, "A", "B") and the
\* extended capabilities x and y: a number and a string, or a boolean and a
\* number
FrameFiles ==
    { [PlainFile EXCEPT !.bools = <<1>>, !.numbers = <<8, 9>>,
          !.strings = <<0, 2>>, !.strtab = <<65, 0, 66, 0>>,
          !.ext = [some |-> TRUE, bools |-> <<>>, numbers |-> <<7>>,
                   strings |-> <<0>>, names |-> <<<<120>>, <<121>>>>,
                   strtab |-> <<118, 0>>]],
      [PlainFile EXCEPT !.bools = <<1>>, !.numbers = <<8, 9>>,
          !.strings = <<0, 2>>, !.strtab = <<65, 0, 66, 0>>,
          !.ext = [some |-> TRUE, bools |-> <<1>>, numbers |-> <<7>>,
                   strings |-> <<>>, names |-> <<<<120>>, <<121>>>>,
                   strtab |-> <<>>]] }

\* TermInfoBuf::new(), or TermInfo::parse(&data).unwrap().into()
InitFrame ==
    /\ base = 0
    /\ last = NoCall
    /\ LangIdle
    /\ \/ /\ bytes = <<>>
          /\ parsed = NotParsed
          /\ tib = TermInfoBuf_new
       \/ \E f \in FrameFiles :
            /\ bytes = Compile(f)
            /\ parsed = parse(Compile(f))
            /\ tib = from_terminfo(Compile(f), parse(Compile(f)).val)

NextFrame == SetExtBoolean \/ SetExtNumber \/ SetExtString

SpecFrame == InitFrame /\ [][NextFrame]_vars

\* every predefined capability of b2 reads as it does in b1
SamePredefined(b1, b2) ==
    \A i \in 0..MaxFields :
        /\ boolean(b2, i) = boolean(b1, i)
        /\ number(b2, i) = number(b1, i)
        /\ string(b2, i) = string(b1, i)

\* every extended name but n resolves in b2 to the value it has in b1
SameOtherExtended(b1, b2, n) ==
    \A m \in ExtNames \ {n} :
        /\ ext_boolean(b2, m) = ext_boolean(b1, m)
        /\ ext_number(b2, m) = ext_number(b1, m)
        /\ ext_string(b2, m) = ext_string(b1, m)

\* a set_ext_boolean, set_ext_number or set_ext_string has returned
SetExtReturns ==
    /\ last'.op \in {"set_ext_boolean", "set_ext_number", "set_ext_string"}
    /\ last'.ret # Panic

\* C27: set_ext_boolean, set_ext_number and set_ext_string change the
\* extended mirror only: every predefined capability reads as before and
\* every other extended name still resolves to its previous value
C27_SetExtFrame ==
    [][ SetExtReturns =>
            /\ SamePredefined(tib, tib')
            /\ SameOtherExtended(tib, tib', last'.arg[1]) ]_vars

\* the half of C27 about the predefined capabilities alone
C27_PredefinedKept == [][ SetExtReturns => SamePredefined(tib, tib') ]_vars

\* the part of C27 that holds: the booleans are kept, and the first
\* extended capability of a buffer leaves every predefined one alone
C27_FirstExtended ==
    [][ SetExtReturns =>
            /\ tib'.bools = tib.bools
            /\ ~tib.ext.some \/ last'.op = "set_ext_boolean" =>
                    SamePredefined(tib, tib') ]_vars

----------------------------------------------------------------------------
(* C28: a set_string that fails                                            *)

\* a set_string has failed with MaxStrTabSizeReached
SetStringFails ==
    last'.op = "set_string" /\ last'.ret = Err("MaxStrTabSizeReached")

\* C28: when set_string fails with MaxStrTabSizeReached the buffer is left
\* unchanged: the array of string offsets has the same length and contents,
\* the string table has the same length, and so every getter returns what
\* it returned before the call
C28_FailedSetString ==
    [][ SetStringFails =>
            /\ tib'.strings = tib.strings
            /\ Len(tib'.strtab) = Len(tib.strtab)
            /\ tib' = tib ]_vars

\* the part of C28 that holds: what the buffer held is kept, the string
\* table is longer by the rejected value and its terminator, and the array
\* of offsets is at most filled up with the invalid offset
C28_KeptButGrown ==
    [][ SetStringFails =>
            /\ tib'.strtab = tib.strtab \o last'.arg[2] \o <<0>>
            /\ Len(tib'.strings) >= Len(tib.strings)
            /\ \A i \in 1..Len(tib'.strings) :
                    tib'.strings[i] = nth_or(tib.strings, i - 1, invalid)
            /\ tib'.bools = tib.bools
            /\ tib'.numbers = tib.numbers
            /\ tib'.ext = tib.ext ]_vars

----------------------------------------------------------------------------
(* C29: a second write on the same executor                                *)

\* this step is the second write of an executor, right after a first one
\* that succeeded
SecondWrite ==
    /\ last.op = "write" /\ last.nth = 1 /\ last.ret.kind = "Ok"
    /\ last'.op = "write" /\ last'.nth = 2

\* C29: Executor::write does not alter what a later write on the same
\* executor produces: the second write succeeds as well and emits the bytes
\* the first one emitted, also for a string with `%i`
C29_SecondWrite ==
    [][ SecondWrite =>
            /\ last'.ret.kind = "Ok"
            /\ out' = out \o out ]_vars

\* the program leaves nothing on the stack it did not find there and has no
\* `%i`: its first write left the executor as it was
FirstWriteKeptExecutor == exe = last.pre

\* the part of C29 that holds: the second write repeats the first whenever
\* the first left the stack and the arguments as they were
C29_WhenExecutorKept ==
    [][ SecondWrite /\ FirstWriteKeptExecutor =>
            /\ last'.ret.kind = "Ok"
            /\ out' = out \o out ]_vars

----------------------------------------------------------------------------
(* SpecFmt: the markup of format.rs, one iteration of the loop per step    *)

\* the longest generated markup, and the output after which a run is no
\* longer followed
MaxMarkup == 4
MaxFmtOut == 24

\* write!(w, "{}", n) for n >= 0
RECURSIVE Display(_)
Display(n) ==
    IF n < 10 THEN <<Ord("0") + n>>
    ELSE Display(n \div 10) \o <<Ord("0") + (n % 10)>>

\* enum GraphicRendition, the renditions write_fmt uses
GraphicRendition ==
    [Reset |-> 0, Bold |-> 1, Italic |-> 3, Blink |-> 5, Strike |-> 9,
     ResetImpact |-> 22, ResetStyle |-> 23, ResetBlink |-> 25,
     ResetStrike |-> 29, ResetForeground |-> 39, ResetBackground |-> 49]

ESC == 27

\* ansi::sgr: write!(w, "\x1b[{}m", gr as usize)
sgr(w, gr) ==
    w \o <<ESC, Ord("[")>> \o Display(GraphicRendition[gr]) \o <<Ord("m")>>

\* the characters str::trim and the skip_while of from_str take away
Whitespace == {32, 9, 10, 13}

RECURSIVE TrimStart(_)
TrimStart(str) ==
    IF str # <<>> /\ Head(str) \in Whitespace THEN TrimStart(Tail(str)) ELSE str

RECURSIVE TrimEnd(_)
TrimEnd(str) ==
    IF str # <<>> /\ str[Len(str)] \in Whitespace
    THEN TrimEnd(Upto(str, Len(str) - 1)) ELSE str

\* str::trim
Trim(str) == TrimEnd(TrimStart(str))

\* str::to_lowercase on ASCII
to_lowercase(str) ==
    [i \in 1..Len(str) |->
        IF str[i] \in Ord("A")..Ord("Z") THEN str[i] + 32 ELSE str[i]]

\* Color::from_name
from_name(lower) ==
    IF lower = Str(<<"b", "l", "a", "c", "k">>) THEN Ok(0)
    ELSE IF lower = Str(<<"b", "l", "u", "e">>) THEN Ok(4)
    ELSE IF lower = Str(<<"c", "y", "a", "n">>) THEN Ok(6)
    ELSE IF lower = Str(<<"g", "r", "e", "y">>) THEN Ok(7)
    ELSE IF lower = Str(<<"w", "h", "i", "t", "e">>) THEN Ok(15)
    ELSE Err("UnknownColorName")

\* lower.parse::<u8>() on a string that starts with a digit
parse_u8(lower) ==
    IF (\A i \in 1..Len(lower) : lower[i] \in Digit) /\ Len(lower) <= 3
            /\ DecimalValue(lower) <= 255
    THEN Ok(DecimalValue(lower))
    ELSE Err("InvalidColor")

\* Color::from_str up to the index of the colour; a colour that starts with
\* `rgb` and is longer than four characters goes to from_rgb, which no
\* markup of this specification reaches
Color_from_str(str) ==
    LET lower == TrimStart(to_lowercase(str))
    IN IF lower = <<>> THEN Panic
       ELSE IF lower[1] = Ord("#") THEN Err("InvalidColor")
       ELSE IF lower[1] \in Digit THEN parse_u8(lower)
       ELSE IF lower[1] = Ord("r")
       THEN IF Len(lower) > 4 /\ lower[2] = Ord("g") /\ lower[3] = Ord("b")
            THEN [kind |-> "from_rgb"]
            ELSE IF Len(lower) > 2 /\ lower[2] = Ord("e") /\ lower[3] = Ord("d")
            THEN Ok(1)
            ELSE Err("UnknownColorName")
       ELSE from_name(lower)

\* ansi::set_foreground (base 30, 82, "38;5;") and ansi::set_background
\* (base 40, 92, "48;5;") of Color::Index(x)
set_ground(w, x, low, high, long) ==
    w \o <<ESC, Ord("[")>>
      \o (IF x <= 7 THEN Display(x + low)
          ELSE IF x <= 15 THEN Display(x + high)
          ELSE long \o Display(x))
      \o <<Ord("m")>>

set_foreground(w, x) == set_ground(w, x, 30, 82, Str(<<"3", "8", ";", "5", ";">>))
set_background(w, x) == set_ground(w, x, 40, 92, Str(<<"4", "8", ";", "5", ";">>))

\* the bytes write_fmt does not write through
Markers == {Ord("_"), Ord("*"), Ord("\\"), Ord("%"), Ord("["), Ord("~")}

\* slice.iter().nth(k)
nth(sl, k) == IF k < Len(sl) THEN Some(sl[k + 1]) ELSE None

\* write_fmt has not returned
Running == [kind |-> "Running"]

\* the state of write_fmt at the head of its loop or after its return
Fmt(pc, sl, flags, ret) ==
    [op |-> "write_fmt", pc |-> pc, slice |-> sl, flags |-> flags, ret |-> ret]

\* the end of an iteration that wrote w: slice = &slice[read..]
Continue(sl, read, flags, w) ==
    IF read > Len(sl) THEN [st |-> Fmt("done", sl, flags, Panic), w |-> w]
    ELSE [st |-> Fmt("loop", From(sl, read), flags, Running), w |-> w]

\* a `return Err(..)`, a `?` that fails, or a panic
Leave(sl, flags, ret, w) == [st |-> Fmt("done", sl, flags, ret), w |-> w]

\* the arms `_`, `*`, `~` and `%`: flip the flag and write its rendition
Toggle(sl, read, flags, w, flag, on, off) ==
    Continue(sl, read + 1, [flags EXCEPT ![flag] = ~flags[flag]],
             sgr(w, IF flags[flag] THEN off ELSE on))

\* the arm `\`
Escape(sl, read, flags, w) ==
    LET next == nth(sl, read + 1)
    IN Continue(sl, read + 2, flags,
            IF ~next.some THEN w \o <<Ord("\\")>>
            ELSE IF next.val \in {Ord("\\"), Ord("_"), Ord("~"), Ord("*"),
                                 Ord("%"), Ord("{")}
            THEN w \o <<next.val>>
            ELSE w \o <<Ord("\\"), next.val>>)

\* the colour of `[+fg:..]` or `[+bg:..]` has been parsed to c
Coloured(sl, read, flags, w, c, name, end_index) ==
    IF c.kind # "Ok" THEN Leave(sl, flags, c, w)
    ELSE Continue(sl, read + end_index + 3, flags,
            IF name = Str(<<"f", "g">>) THEN set_foreground(w, c.val)
            ELSE set_background(w, c.val))

\* the arm `[+`: str is the text up to the `]`, split_index its `:`
SetColour(sl, read, flags, w, str, split_index, end_index) ==
    IF Trim(Upto(str, split_index)) \in {Str(<<"f", "g">>), Str(<<"b", "g">>)}
    THEN IF split_index + 1 > Len(str) THEN Leave(sl, flags, Panic, w)
         ELSE Coloured(sl, read, flags, w, Color_from_str(From(str, split_index + 1)),
                       Trim(Upto(str, split_index)), end_index)
    ELSE Leave(sl, flags, Err("InvalidColorLocation"), w)

\* end_index of the arm `[+`, given split_index
EndIndex(sl, read, split_index) ==
    count_while(From(sl, split_index + read + 2), (0..255) \ {Ord("]")}) + split_index

\* the arm `[-`: str is the text up to the `]`
ResetColour(sl, read, flags, w, str) ==
    IF Trim(str) = Str(<<"f", "g">>)
    THEN Continue(sl, read + Len(str) + 3, flags, sgr(w, "ResetForeground"))
    ELSE IF Trim(str) = Str(<<"b", "g">>)
    THEN Continue(sl, read + Len(str) + 3, flags, sgr(w, "ResetBackground"))
    ELSE IF Trim(str) = Str(<<"a", "l", "l">>)
    THEN Continue(sl, read + Len(str) + 3, flags, sgr(w, "Reset"))
    ELSE Leave(sl, flags, Err("InvalidResetSpecifier"), w)

\* the arm `[`
Bracket(sl, read, flags, w) ==
    LET next == nth(sl, read + 1)
    IN IF ~next.some THEN Continue(sl, read, flags, w \o <<Ord("[")>>)
       ELSE IF next.val = Ord("+")
       THEN LET split_index == count_while(From(sl, read + 2), (0..255) \ {Ord(":")})
            IN SetColour(sl, read, flags, w,
                    SubSeq(sl, read + 3, read + 2 + EndIndex(sl, read, split_index)),
                    split_index, EndIndex(sl, read, split_index))
       ELSE IF next.val = Ord("-")
       THEN ResetColour(sl, read, flags, w,
                SubSeq(sl, read + 3,
                       read + 2 + count_while(From(sl, read + 2), (0..255) \ {Ord("]")})))
       ELSE Continue(sl, read, flags, w \o <<Ord("["), next.val>>)

\* the match of one iteration, on the marker at slice[read]
Marker(sl, read, flags, w) ==
    IF sl[read + 1] = Ord("_")
    THEN Toggle(sl, read, flags, w, "bold", "Bold", "ResetImpact")
    ELSE IF sl[read + 1] = Ord("*")
    THEN Toggle(sl, read, flags, w, "italics", "Italic", "ResetStyle")
    ELSE IF sl[read + 1] = Ord("~")
    THEN Toggle(sl, read, flags, w, "strike", "Strike", "ResetStrike")
    ELSE IF sl[read + 1] = Ord("%")
    THEN Toggle(sl, read, flags, w, "blink", "Blink", "ResetBlink")
    ELSE IF sl[read + 1] = Ord("\\") THEN Escape(sl, read, flags, w)
    ELSE Bracket(sl, read, flags, w)

\* one iteration of the loop of write_fmt on a slice that is not empty
write_fmt_iteration(sl, flags, w) ==
    LET printable_count == count_while(sl, (0..255) \ Markers)
    IN IF Len(sl) = printable_count
       THEN Leave(sl, flags, Ok(Unit), w \o sl)
       ELSE Marker(sl, printable_count, flags, w \o Upto(sl, printable_count))

\* the markups: every string of up to MaxMarkup bytes out of a, \, _, [, -
\* and ], and the colours and resets below
MarkupBytes == {Ord("a"), Ord("\\"), Ord("_"), Ord("["), Ord("-"), Ord("]")}
ShortMarkups == UNION { [1..n -> MarkupBytes] : n \in 0..MaxMarkup }
ColourMarkups ==
    {Str(<<"[", "+", "f", "g", ":", "r", "e", "d", "]", "r">>),
     Str(<<"[", "+", "F", "G", ":", "r", "e", "d", "]">>),
     Str(<<"[", "+", "f", "g", " ", ":", " ", "b", "l", "u", "e", "]", "~", "b", "~">>),
     Str(<<"[", "+", "b", "g", ":", "1", "5", "]", "w">>),
     Str(<<"[", "+", "f", "g", ":", "2", "0", "0", "]">>),
     Str(<<"[", "+", "f", "g", ":", "2", "5", "6", "]">>),
     Str(<<"[", "+", "f", "g", ":", "p", "i", "n", "k", "]">>),
     Str(<<"[", "+", "f", "g", ":", "]">>),
     Str(<<"[", "+", "f", "g", "]">>),
     Str(<<"[", "+", "f", "g", ":", "r", "e", "d">>),
     Str(<<"_", "%", "*", "~", "H", "[", "-", "a", "l", "l", "]", " ", "o", "k">>),
     Str(<<"[", "-", "f", "g", "]", "[", "-", "b", "g", "]">>),
     Str(<<"[", "-", " ", "f", "g", " ", "]">>),
     Str(<<"[", "-", "f", "g">>),
     Str(<<"a", "[", "b", "]">>)}

NoFlags == [bold |-> FALSE, italics |-> FALSE, strike |-> FALSE, blink |-> FALSE]

\* write_fmt(&mut w, s) is entered
FmtStartIn(Markups) ==
    /\ last = NoCall
    /\ \E m \in Markups :
        /\ bytes' = m
        /\ last' = Fmt("loop", m, NoFlags, Running)
    /\ out' = <<>>
    /\ UNCHANGED <<base, parsed, tib, exe>>

FmtStartShort == FmtStartIn(ShortMarkups)
FmtStartColour == FmtStartIn(ColourMarkups)

\* write_fmt is at the head of its loop
InLoop == last.op = "write_fmt" /\ last.pc = "loop"

\* one iteration of `while slice.len() > 0`
FmtIterate ==
    /\ InLoop
    /\ Len(last.slice) > 0
    /\ Len(out) < MaxFmtOut
    /\ last' = write_fmt_iteration(last.slice, last.flags, out).st
    /\ out' = write_fmt_iteration(last.slice, last.flags, out).w
    /\ UNCHANGED <<bytes, base, parsed, tib, exe>>

\* the loop ends on an empty slice: Ok(())
FmtReturn ==
    /\ InLoop
    /\ Len(last.slice) = 0
    /\ last' = Fmt("done", last.slice, last.flags, Ok(Unit))
    /\ UNCHANGED <<bytes, base, parsed, tib, exe, out>>

NextFmt == FmtStartShort \/ FmtStartColour \/ FmtIterate \/ FmtReturn

SpecFmt == InitLang /\ [][NextFmt]_vars

\* C30: write_fmt terminates on every input: each iteration of its loop
\* consumes at least one byte of the remaining markup, also when a `[` is
\* followed by a byte other than `+` or `-` or is the last byte, and the
\* call returns a string or an error, it does not abort
C30_Consumes ==
    [][ InLoop =>
            /\ last'.pc = "loop" => Len(last'.slice) < Len(last.slice)
            /\ last'.ret # Panic ]_vars

\* a `[` that is the last byte or is followed by neither `+` nor `-`
PlainBracket(sl) ==
    LET read == count_while(sl, (0..255) \ Markers)
    IN /\ read < Len(sl)
       /\ sl[read + 1] = Ord("[")
       /\ nth(sl, read + 1) \notin {Some(Ord("+")), Some(Ord("-"))}

\* the part of C30 that holds: every iteration that is not at such a `[`
\* consumes at least one byte, and from_rgb is not entered
C30_ButPlainBracket ==
    [][ InLoop /\ ~PlainBracket(last.slice) =>
            /\ last'.pc = "loop" => Len(last'.slice) < Len(last.slice)
            /\ last'.ret.kind # "from_rgb" ]_vars

====
